---- MODULE Spec2Model ----
(***************************************************************************)
(* Fox Valley dashboard: the portfolio / screen reconciliation pipeline.   *)
(*                                                                         *)
(* The module holds one state machine per pipeline stage, each with its    *)
(* own specification over its own variables (the other stages' variables   *)
(* stay as Init left them):                                                *)
(*   SelSpec    the file selectors over the data directory                 *)
(*   MatchSpec  cross_match of one screen table against the portfolio      *)
(*   IntelSpec  build_intel_overlay / merge_zacks_screens and allocation   *)
(*   ClassSpec  apply_tactical_rules over the crossmatched rows            *)
(*   DeltaSpec  the day-over-day comparison of two CandidateSets           *)
(*   NormSpec   the column normalizers over one raw table                  *)
(***************************************************************************)
EXTENDS Integers, Sequences, FiniteSets, TLC

VARIABLES
    dirExists,   \* os.path.isdir(DATA_DIR)
    files,       \* the CSV files of the data directory (a set: listdir order is not state)
    selRes,      \* what the last selector call returned
    zdf,         \* a normalized screen table: rows of Ticker, Zacks Rank
    pf,          \* the portfolio table: rows of Ticker, Value
    merged,      \* what the last cross_match call returned
    g1_df,       \* the normalized Growth 1 screen
    g2_df,       \* the normalized Growth 2 screen
    dd_df,       \* the normalized Defensive Dividend screen
    portfolio_df, \* the portfolio table handed to build_intel_overlay
    intel,       \* what build_intel_overlay / merge_zacks_screens returned
    plan,        \* the AllocationPlan computed from the overlay
    result,      \* the crossmatched portfolio rows handed to apply_tactical_rules
    scored,      \* TRUE once apply_tactical_rules has filled Gain/Loss % and Action
    today,       \* today's CandidateSet: ticker -> rank
    prior,       \* the prior CandidateSet, when there is one
    delta,       \* what the last comparison reported
    raw_df,      \* a raw table as read_csv returned it
    norm,        \* what the last normalizer call made of raw_df
    pfile,       \* the portfolio file: "absent", "unreadable" or "ok"
    screens,     \* the three screen files: absent, unreadable or a table
    render,      \* how the last run of an app ended
    disk,        \* data/portfolio_data.csv as it is on disk
    cached,      \* the memo st.cache_data keeps of load_portfolio()
    view,        \* the portfolio table and totals the last render showed
    zdir,        \* the zacks_custom_screen*.csv files of the data directory
    snap,        \* what the last load_zacks_files_auto call returned
    held_pf,     \* the portfolio frame the caller holds
    held_z,      \* the screen frame the caller holds
    passed,      \* the frames as they were handed to the last pipeline call
    clock,       \* the local date and time of day
    summaries,   \* the data/tactical_summary_<date>.md files: date -> when written
    mdf,         \* the portfolio table handed to compute_portfolio_metrics
    mres,        \* what the monolithic and the modular function returned for it
    unified,     \* the merged screens handed to score_zacks_candidates
    top,         \* the scored table and what get_top_n returned of it
    trow,        \* a candidate row handed to apply_tactical_analysis
    tactical,    \* the row with the columns apply_tactical_analysis added
    holding,     \* one holding: cost basis, price and shares
    gainPct,     \* the gain/loss percentage the last derivation gave it
    wdf,         \* the portfolio table handed to the weight heat map
    heat         \* the Weight % column and the figure the last heat map call made

selVars == <<dirExists, files, selRes>>

matchVars == <<zdf, pf, merged>>

intelVars == <<g1_df, g2_df, dd_df, portfolio_df, intel, plan>>

classVars == <<result, scored>>

deltaVars == <<today, prior, delta>>

normVars == <<raw_df, norm>>

renderVars == <<pfile, screens, render>>

cacheVars == <<disk, cached, view>>

snapVars == <<zdir, snap>>

frameVars == <<held_pf, held_z, passed>>

summaryVars == <<clock, summaries>>

metricsVars == <<mdf, mres>>

scoreVars == <<unified, top>>

tacticalVars == <<trow, tactical>>

gainVars == <<holding, gainPct>>

weightVars == <<wdf, heat>>

vars == <<selVars, matchVars, intelVars, classVars, deltaVars, normVars, renderVars, cacheVars, snapVars, frameVars, summaryVars, metricsVars, scoreVars, tacticalVars, gainVars, weightVars>>

\* What each stage leaves alone.
notSel == <<matchVars, intelVars, classVars, deltaVars, normVars, renderVars, cacheVars, snapVars, frameVars, summaryVars, metricsVars, scoreVars, tacticalVars, gainVars, weightVars>>

notMatch == <<selVars, intelVars, classVars, deltaVars, normVars, renderVars, cacheVars, snapVars, frameVars, summaryVars, metricsVars, scoreVars, tacticalVars, gainVars, weightVars>>

notIntel == <<selVars, matchVars, classVars, deltaVars, normVars, renderVars, cacheVars, snapVars, frameVars, summaryVars, metricsVars, scoreVars, tacticalVars, gainVars, weightVars>>

notClass == <<selVars, matchVars, intelVars, deltaVars, normVars, renderVars, cacheVars, snapVars, frameVars, summaryVars, metricsVars, scoreVars, tacticalVars, gainVars, weightVars>>

notDelta == <<selVars, matchVars, intelVars, classVars, normVars, renderVars, cacheVars, snapVars, frameVars, summaryVars, metricsVars, scoreVars, tacticalVars, gainVars, weightVars>>

notNorm == <<selVars, matchVars, intelVars, classVars, deltaVars, renderVars, cacheVars, snapVars, frameVars, summaryVars, metricsVars, scoreVars, tacticalVars, gainVars, weightVars>>

notRender == <<selVars, matchVars, intelVars, classVars, deltaVars, normVars, cacheVars, snapVars, frameVars, summaryVars, metricsVars, scoreVars, tacticalVars, gainVars, weightVars>>

notCache == <<selVars, matchVars, intelVars, classVars, deltaVars, normVars, renderVars, snapVars, frameVars, summaryVars, metricsVars, scoreVars, tacticalVars, gainVars, weightVars>>

notSnap == <<selVars, matchVars, intelVars, classVars, deltaVars, normVars, renderVars, cacheVars, frameVars, summaryVars, metricsVars, scoreVars, tacticalVars, gainVars, weightVars>>

notFrame == <<selVars, matchVars, intelVars, classVars, deltaVars, normVars, renderVars, cacheVars, snapVars, summaryVars, metricsVars, scoreVars, tacticalVars, gainVars, weightVars>>

notSummary == <<selVars, matchVars, intelVars, classVars, deltaVars, normVars, renderVars, cacheVars, snapVars, frameVars, metricsVars, scoreVars, tacticalVars, gainVars, weightVars>>

notMetrics == <<selVars, matchVars, intelVars, classVars, deltaVars, normVars, renderVars, cacheVars, snapVars, frameVars, summaryVars, scoreVars, tacticalVars, gainVars, weightVars>>

notScore == <<selVars, matchVars, intelVars, classVars, deltaVars, normVars, renderVars, cacheVars, snapVars, frameVars, summaryVars, metricsVars, tacticalVars, gainVars, weightVars>>

notTactical == <<selVars, matchVars, intelVars, classVars, deltaVars, normVars, renderVars, cacheVars, snapVars, frameVars, summaryVars, metricsVars, scoreVars, gainVars, weightVars>>

notGain == <<selVars, matchVars, intelVars, classVars, deltaVars, normVars, renderVars, cacheVars, snapVars, frameVars, summaryVars, metricsVars, scoreVars, tacticalVars, weightVars>>

notWeight == <<selVars, matchVars, intelVars, classVars, deltaVars, normVars, renderVars, cacheVars, snapVars, frameVars, summaryVars, metricsVars, scoreVars, tacticalVars, gainVars>>

(***************************************************************************)
(* Helpers over sequences.                                                 *)
(***************************************************************************)
Range(s) == {s[i] : i \in DOMAIN s}

Front(s) == SubSeq(s, 1, Len(s) - 1)

Last(s) == s[Len(s)]

\* Every order in which a directory listing (or a glob) can return the set S.
Listings(S) ==
    {s \in [1..Cardinality(S) -> S] : \A i, j \in 1..Cardinality(S) : s[i] = s[j] => i = j}

\* Insert x into the key-sorted sequence t after the last element whose key is <= k[x].
RECURSIVE InsertSorted(_, _, _)
InsertSorted(t, x, k) ==
    IF t = <<>> THEN <<x>>
    ELSE IF k[Last(t)] <= k[x] THEN Append(t, x)
    ELSE Append(InsertSorted(Front(t), x, k), Last(t))

\* Python's sorted(s, key=k): ascending and stable (equal keys keep their input order).
RECURSIVE SortByKey(_, _)
SortByKey(s, k) ==
    IF s = <<>> THEN <<>>
    ELSE InsertSorted(SortByKey(Front(s), k), Last(s), k)

(***************************************************************************)
(* File Selector.                                                          *)
(*                                                                         *)
(* A file name is "<pre>_<keyword>_<date token>.csv": `pre` is the part of *)
(* the name in front of the date token that differs between two files of   *)
(* the same kind (compared by code point, 0 < 1), `date` the YYYY-MM-DD    *)
(* token (1..MaxDate, in calendar order; 0 when the name embeds no date,   *)
(* e.g. "..._latest.csv"), `kw` whether the name contains the keyword the  *)
(* selector is asked for, `mt` the modification time.                      *)
(***************************************************************************)
MaxDate == 2

MaxMtime == 2

MaxFiles == 3

NoDate == 0

\* The names a file of the directory can have.
FileNames ==
    [kw : {TRUE}, pre : 0..1, date : 1..MaxDate]
        \cup {[kw |-> TRUE, pre |-> 0, date |-> NoDate]}
        \cup {[kw |-> FALSE, pre |-> 0, date |-> MaxDate]}

NameOf(f) == [kw |-> f.kw, pre |-> f.pre, date |-> f.date]

File(n, m) == [kw |-> n.kw, pre |-> n.pre, date |-> n.date, mt |-> m]

\* str comparison of two names of the family: the differing prefix comes first, then
\* the date slot, where a letter ("latest") is above every digit.
NameKey(f) == f.pre * (MaxDate + 2) + (IF f.date = NoDate THEN MaxDate + 1 ELSE f.date)

None == [kind |-> "None"]

Raised(e) == [kind |-> "raise", exc |-> e]

Path(f) == [kind |-> "path", file |-> NameOf(f)]

\* DATE_RX.search(name): the date token of a name, when it has one.
HasDateToken(f) == f.date # NoDate

\* _pick_latest(paths, kind_hint): the candidates of the kind that carry a date, sorted
\* by the date token alone, last one returned.
pick_latest(paths) ==
    LET candidates == SelectSeq(paths, LAMBDA p : p.kw /\ HasDateToken(p))
        sorted == SortByKey(candidates, [p \in Range(candidates) |-> p.date])
    IN  IF candidates = <<>> THEN None ELSE Path(Last(sorted))

\* load_most_recent_file(keyword): os.listdir without an isdir check, then the last
\* name of sorted(files).
load_most_recent_file(exists, listing) ==
    IF ~exists THEN Raised("FileNotFoundError")
    ELSE LET fs == SelectSeq(listing, LAMBDA f : f.kw)
             sorted == SortByKey(fs, [f \in Range(fs) |-> NameKey(f)])
         IN  IF fs = <<>> THEN None ELSE Path(Last(sorted))

\* sorted(files, key=getmtime, reverse=True)[0]: descending and stable.
LatestByMtime(fs) == SortByKey(fs, [f \in Range(fs) |-> 0 - f.mt])[1]

\* load_latest_file(pattern, directory) of the command deck: the newest by mtime.
load_latest_file(exists, listing) ==
    IF ~exists THEN None
    ELSE LET fs == SelectSeq(listing, LAMBDA f : f.kw)
         IN  IF fs = <<>> THEN None ELSE Path(LatestByMtime(fs))

\* load_latest_file(pattern, directory) of the portfolio engine module: the same
\* selection inside one try / except.
pe_load_latest_file(exists, listing) ==
    IF ~exists THEN None
    ELSE LET fs == SelectSeq(listing, LAMBDA f : f.kw)
         IN  IF fs = <<>> THEN None ELSE Path(LatestByMtime(fs))

SelInit ==
    /\ dirExists = TRUE
    /\ files = {}
    /\ selRes = [op |-> "none"]

\* A file is written into the directory (a new name, any modification time).
AddFile ==
    /\ dirExists
    /\ Cardinality(files) < MaxFiles
    /\ \E n \in FileNames, m \in 1..MaxMtime :
        /\ n \notin {NameOf(f) : f \in files}
        /\ files' = files \cup {File(n, m)}
    /\ selRes' = [op |-> "none"]
    /\ UNCHANGED <<dirExists, notSel>>

\* A file is removed.
RemoveFile ==
    /\ \E f \in files : files' = files \ {f}
    /\ selRes' = [op |-> "none"]
    /\ UNCHANGED <<dirExists, notSel>>

\* The data directory is removed, or created empty.
RemoveDir ==
    /\ dirExists
    /\ dirExists' = FALSE
    /\ files' = {}
    /\ selRes' = [op |-> "none"]
    /\ UNCHANGED notSel

MakeDir ==
    /\ ~dirExists
    /\ dirExists' = TRUE
    /\ files' = {}
    /\ selRes' = [op |-> "none"]
    /\ UNCHANGED notSel

\* discover_latest_files: list_zacks_files() globs the directory (nothing when it is
\* missing) in some order and _pick_latest chooses.
PickLatest ==
    /\ \E paths \in Listings(files) :
        selRes' = [op |-> "_pick_latest", out |-> pick_latest(paths)]
    /\ UNCHANGED <<dirExists, files, notSel>>

LoadMostRecentFile ==
    /\ \E listing \in Listings(files) :
        selRes' = [op |-> "load_most_recent_file",
                   out |-> load_most_recent_file(dirExists, listing)]
    /\ UNCHANGED <<dirExists, files, notSel>>

LoadLatestFile ==
    /\ \E listing \in Listings(files) :
        selRes' = [op |-> "load_latest_file", out |-> load_latest_file(dirExists, listing)]
    /\ UNCHANGED <<dirExists, files, notSel>>

LoadLatestFileModule ==
    /\ \E listing \in Listings(files) :
        selRes' = [op |-> "portfolio_engine.load_latest_file",
                   out |-> pe_load_latest_file(dirExists, listing)]
    /\ UNCHANGED <<dirExists, files, notSel>>

SelNext ==
    \/ AddFile
    \/ RemoveFile
    \/ RemoveDir
    \/ MakeDir
    \/ PickLatest
    \/ LoadMostRecentFile
    \/ LoadLatestFile
    \/ LoadLatestFileModule

(***************************************************************************)
(* File Selector claims.                                                   *)
(***************************************************************************)
Called == selRes.op # "none"

\* The files a selector call is about: those matching the keyword.
Matching == {f \in files : f.kw}

Dated == {f \in Matching : HasDateToken(f)}

MaxDateToken == CHOOSE d \in {f.date : f \in Dated} : \A f \in Dated : f.date <= d

\* C1: whenever the matching files all embed a date token (and there is one), every
\* selector returns a file whose date token is the largest, for any listing order,
\* modification times and rest of the names.
C1_PicksLatestDate ==
    (Called /\ Matching # {} /\ Dated = Matching)
        => /\ selRes.out.kind = "path"
           /\ selRes.out.file.kw
           /\ selRes.out.file.date = MaxDateToken

\* C2: when the files with the largest date token are several, _pick_latest returns
\* the one among them with the latest modification time, for any listing order.
C2_TieBreakByMtime ==
    (selRes.op = "_pick_latest" /\ Dated # {})
        => /\ selRes.out.kind = "path"
           /\ \E f \in Dated :
                /\ NameOf(f) = selRes.out.file
                /\ f.date = MaxDateToken
                /\ \A g \in Dated : g.date = MaxDateToken => g.mt <= f.mt

\* C3: a selector call never raises; when nothing matches (directory missing or empty,
\* no name with the keyword, no name with a date) it returns the not-found value.
C3_NeverThrows ==
    Called =>
        /\ selRes.out.kind # "raise"
        /\ (Matching = {} => selRes.out = None)
        /\ ((selRes.op = "_pick_latest" /\ Dated = {}) => selRes.out = None)


(***************************************************************************)
(* Tables.  A table is a sequence of rows and a row a function from column *)
(* names to cells.  Tickers are strings (both loaders end with             *)
(* astype(str)); a numeric cell that pd.to_numeric could not parse is NaN. *)
(***************************************************************************)
NaN == -1

MaxRank == 2

MaxScreenRows == 2

MaxPfRows == 2

\* The Zacks Rank cells of a normalized screen.
Ranks == 1..MaxRank \cup {NaN}

ScreenRow(t, r) == ("Ticker" :> t) @@ ("Zacks Rank" :> r)

PortfolioRow(t, v) == ("Ticker" :> t) @@ ("Value" :> v)

\* df[cols]: the table with only the columns cols.
Project(df, cols) == [i \in DOMAIN df |-> [c \in cols |-> df[i][c]]]

\* df.drop(columns=cols)
DropColumns(df, cols) == [i \in DOMAIN df |-> [c \in DOMAIN df[i] \ cols |-> df[i][c]]]

\* The rows left.merge(right, on=key, how="left", indicator=True) makes of one left
\* row: one per right row with the same key, in the right table's order, or the left
\* row alone.
MergeRow(l, right, key) ==
    LET hits == SelectSeq(right, LAMBDA r : r[key] = l[key])
    IN  IF hits = <<>> THEN <<l @@ ("_merge" :> "left_only")>>
        ELSE [j \in DOMAIN hits |-> l @@ hits[j] @@ ("_merge" :> "both")]

RECURSIVE LeftMerge(_, _, _)
LeftMerge(left, right, key) ==
    IF left = <<>> THEN <<>>
    ELSE LeftMerge(Front(left), right, key) \o MergeRow(Last(left), right, key)

\* ticker.astype(str).str.strip().str.upper(), the portfolio loaders' normalization.
Norm(t) ==
    CASE t = "aapl" -> "AAPL"
      [] t = "AAPL " -> "AAPL"
      [] OTHER -> t

(***************************************************************************)
(* Ticker Cross-Matcher: cross_match(zdf, pf).                             *)
(***************************************************************************)
MatchScreenTickers == {"AAPL", "aapl", "AAPL ", "GOOG"}

MatchPortfolioTickers == {"AAPL", "MSFT"}

HeldLabel(m) == IF m = "both" THEN "Held" ELSE "Candidate"

cross_match(z, p) ==
    IF z = <<>> THEN <<>>
    ELSE LET pf_tickers == Project(p, {"Ticker"})
             m == LeftMerge(z, pf_tickers, "Ticker")
             marked == [i \in DOMAIN m |-> m[i] @@ ("Held?" :> HeldLabel(m[i]["_merge"]))]
         IN  DropColumns(marked, {"_merge"})

MatchInit ==
    /\ zdf = <<>>
    /\ pf = <<>>
    /\ merged = [op |-> "none"]

\* normalize_zacks delivers one more row of the screen.
AddScreenRow ==
    /\ Len(zdf) < MaxScreenRows
    /\ \E t \in MatchScreenTickers, r \in Ranks : zdf' = Append(zdf, ScreenRow(t, r))
    /\ merged' = [op |-> "none"]
    /\ UNCHANGED <<pf, notMatch>>

\* load_portfolio delivers one more holding.
AddPortfolioRow ==
    /\ Len(pf) < MaxPfRows
    /\ \E t \in MatchPortfolioTickers : pf' = Append(pf, PortfolioRow(t, 50000))
    /\ merged' = [op |-> "none"]
    /\ UNCHANGED <<zdf, notMatch>>

CrossMatch ==
    /\ merged' = [op |-> "cross_match", out |-> cross_match(zdf, pf)]
    /\ UNCHANGED <<zdf, pf, notMatch>>

\* The next render starts from the files again.
ReloadTables ==
    /\ merged.op # "none"
    /\ zdf' = <<>>
    /\ pf' = <<>>
    /\ merged' = [op |-> "none"]
    /\ UNCHANGED notMatch

MatchNext ==
    \/ AddScreenRow
    \/ AddPortfolioRow
    \/ CrossMatch
    \/ ReloadTables

(***************************************************************************)
(* Cross-match claims.                                                     *)
(***************************************************************************)
Matched == merged.op = "cross_match"

HoldingTickers == {Norm(pf[j]["Ticker"]) : j \in DOMAIN pf}

\* C4: every candidate row is marked, Held exactly when its normalized ticker is one
\* of the portfolio's normalized tickers, Candidate otherwise.
C4_CrossMatchTotality ==
    Matched =>
        /\ \A i \in DOMAIN zdf : \E o \in Range(merged.out) : o["Ticker"] = zdf[i]["Ticker"]
        /\ \A o \in Range(merged.out) :
            /\ o["Held?"] \in {"Held", "Candidate"}
            /\ o["Held?"] = "Held" <=> Norm(o["Ticker"]) \in HoldingTickers

\* C5: cross_match returns one row per candidate row, the candidate's own cells plus
\* the Held flag and nothing else.
C5_MembershipNotJoin ==
    Matched =>
        /\ Len(merged.out) = Len(zdf)
        /\ \A i \in DOMAIN merged.out :
            /\ DOMAIN merged.out[i] = DOMAIN zdf[i] \cup {"Held?"}
            /\ \A c \in DOMAIN zdf[i] : merged.out[i][c] = zdf[i][c]

(***************************************************************************)
(* Rationals, for percentages and dollar amounts that do not divide evenly. *)
(***************************************************************************)
RECURSIVE GCD(_, _)
GCD(a, b) == IF b = 0 THEN a ELSE GCD(b, a % b)

\* n / d in lowest terms (n >= 0, d > 0).
Rat(n, d) == LET g == GCD(n, d) IN [num |-> n \div g, den |-> d \div g]

Zero == Rat(0, 1)

RatLeq(a, b) == a.num * b.den <= b.num * a.den

RatMin(a, b) == IF RatLeq(a, b) THEN a ELSE b

RatAdd(a, b) == Rat(a.num * b.den + b.num * a.den, a.den * b.den)

RatMul(a, b) == Rat(a.num * b.num, a.den * b.den)

(***************************************************************************)
(* Intelligence overlay: build_intel_overlay, merge_zacks_screens.         *)
(***************************************************************************)
IntelScreenTickers == {"AAPL", "GOOG"}

\* The holdings a portfolio row can be: a ticker with a Value, or with a Value cell
\* that did not parse.
Holdings ==
    {PortfolioRow("AAPL", 50000), PortfolioRow("MSFT", 50000), PortfolioRow("AAPL", NaN)}

\* Series.sum(): NaN cells are skipped.
RECURSIVE SumColumn(_, _)
SumColumn(df, col) ==
    IF df = <<>> THEN 0
    ELSE SumColumn(Front(df), col) + (IF Last(df)[col] = NaN THEN 0 ELSE Last(df)[col])

\* total_value = portfolio["Value"].sum()
TotalValue(p) == SumColumn(p, "Value")

\* cash_value: the Value of the rows whose ticker contains SPAXX.
CashValue(p) == SumColumn(SelectSeq(p, LAMBDA r : r["Ticker"] = "SPAXX"), "Value")

\* df.drop_duplicates(subset=["Ticker"]): the first row of each ticker stays.
RECURSIVE DropDuplicates(_)
DropDuplicates(df) ==
    IF df = <<>> THEN <<>>
    ELSE LET d == DropDuplicates(Front(df))
         IN  IF \E r \in Range(d) : r["Ticker"] = Last(df)["Ticker"]
             THEN d
             ELSE Append(d, Last(df))

\* a / b as Python evaluates it: a value, or the exception.
Div(a, b) == IF b = 0 THEN [exc |-> "ZeroDivisionError"] ELSE [val |-> a \div b]

Failed(x) == "exc" \in DOMAIN x

\* The percentage without its total_val > 0 condition.
CashPctUnguarded(cash, total) == Div(cash * 100, total)

\* cash_pct = (cash_val / total_val) * 100 if total_val > 0 else 0   (whole percent)
CashPct(cash, total) == IF total > 0 THEN Div(cash * 100, total) ELSE [val |-> 0]

\* rank1[~rank1["Ticker"].isin(held_tickers)]
NewRank1(rank1, held_tickers) ==
    SelectSeq(rank1, LAMBDA r : r["Ticker"] \notin held_tickers)

HeldRank1(rank1, held_tickers) ==
    SelectSeq(rank1, LAMBDA r : r["Ticker"] \in held_tickers)

\* The concatenation without drop_duplicates.
CombinedKeepAll(g1, g2, dd) == g1 \o g2 \o dd

\* pd.concat([g1_df, g2_df, dd_df]) then drop_duplicates, when there is a row at all.
Combined(g1, g2, dd) == DropDuplicates(g1 \o g2 \o dd)

build_intel_overlay(p, g1, g2, dd, cash, total) ==
    LET combined == Combined(g1, g2, dd)
        held_tickers == {p[i]["Ticker"] : i \in DOMAIN p}
        rank1 == SelectSeq(combined, LAMBDA r : r["Zacks Rank"] = 1)
        cash_pct == CashPct(cash, total)
    IN  IF Failed(cash_pct)
        THEN [op |-> "build_intel_overlay", err |-> cash_pct.exc]
        ELSE [op |-> "build_intel_overlay", err |-> "none",
              combined |-> combined,
              new_rank1 |-> NewRank1(rank1, held_tickers),
              held_rank1 |-> HeldRank1(rank1, held_tickers),
              cash_pct |-> cash_pct.val]

\* prepare_screen(df, label): the screen with its Source column.
prepare_screen(df, label) == [i \in DOMAIN df |-> df[i] @@ ("Source" :> label)]

\* merge_zacks_screens(auto_dict): the prepared screens, concatenated in the order of
\* VALID_SCREEN_TYPES.
merge_zacks_screens(g1, g2, dd) ==
    prepare_screen(g1, "Growth1") \o prepare_screen(g2, "Growth2")
        \o prepare_screen(dd, "DefensiveDividend")

(***************************************************************************)
(* Classification & Allocation Engine, allocation step: over the Buy       *)
(* bucket of the overlay (rank 1, not held), each entry gets               *)
(* min(position_cap_pct, (deployable / total_value) / n) of total_value.   *)
(***************************************************************************)
DeployFractionPct == 85

PositionCapPct == 15

\* The settings a run is made with: the documented ones, and a pair whose cap is
\* loose enough for the even split to decide.
Configs ==
    {[deploy |-> DeployFractionPct, cap |-> PositionCapPct], [deploy |-> 40, cap |-> 50]}

\* n: the count of Buy-bucket entries.
BucketCount(buy) == Len(buy)

\* Without the ceiling.
PerPositionPctUncapped(n, total, c) ==
    IF n = 0 \/ total = 0 THEN [val |-> Zero] ELSE [val |-> Rat(c.deploy, n)]

\* per_position_pct, in percent; the guard covers n = 0 and total_value = 0.
PerPositionPct(n, total, c) ==
    IF n = 0 \/ total = 0 THEN [val |-> Zero]
    ELSE [val |-> RatMin(Rat(c.cap, 1), Rat(c.deploy, n))]

\* The AllocationPlan: percentage and dollars for every entry of the CandidateSet.
Allocate(overlay, total, c) ==
    LET buy == overlay.new_rank1
        n == BucketCount(buy)
        share == PerPositionPct(n, total, c)
        tickers == {r["Ticker"] : r \in Range(overlay.combined)}
        inBucket(t) == \E r \in Range(buy) : r["Ticker"] = t
    IN  IF Failed(share) THEN [op |-> "allocate", cfg |-> c, err |-> share.exc]
        ELSE [op |-> "allocate", cfg |-> c, err |-> "none", n |-> n,
              pct |-> [t \in tickers |-> IF inBucket(t) THEN share.val ELSE Zero],
              amount |-> [t \in tickers |->
                            IF inBucket(t) THEN RatMul(share.val, Rat(total, 100))
                            ELSE Zero]]

IntelInit ==
    /\ g1_df = <<>>
    /\ g2_df = <<>>
    /\ dd_df = <<>>
    /\ portfolio_df = <<>>
    /\ intel = [op |-> "none"]
    /\ plan = [op |-> "none"]

ScreenRowCount == Len(g1_df) + Len(g2_df) + Len(dd_df)

Stale == /\ intel' = [op |-> "none"]
         /\ plan' = [op |-> "none"]

\* One more row of one of the three normalized screens, in the order they are read.
AddGrowth1Row ==
    /\ ScreenRowCount < MaxScreenRows
    /\ g2_df = <<>> /\ dd_df = <<>>
    /\ \E t \in IntelScreenTickers, r \in Ranks : g1_df' = Append(g1_df, ScreenRow(t, r))
    /\ Stale
    /\ UNCHANGED <<g2_df, dd_df, portfolio_df, notIntel>>

AddGrowth2Row ==
    /\ ScreenRowCount < MaxScreenRows
    /\ dd_df = <<>>
    /\ \E t \in IntelScreenTickers, r \in Ranks : g2_df' = Append(g2_df, ScreenRow(t, r))
    /\ Stale
    /\ UNCHANGED <<g1_df, dd_df, portfolio_df, notIntel>>

AddDefensiveRow ==
    /\ ScreenRowCount < MaxScreenRows
    /\ \E t \in IntelScreenTickers, r \in Ranks : dd_df' = Append(dd_df, ScreenRow(t, r))
    /\ Stale
    /\ UNCHANGED <<g1_df, g2_df, portfolio_df, notIntel>>

\* One more holding of the portfolio file.
AddHolding ==
    /\ Len(portfolio_df) < MaxPfRows
    /\ \E h \in Holdings : portfolio_df' = Append(portfolio_df, h)
    /\ Stale
    /\ UNCHANGED <<g1_df, g2_df, dd_df, notIntel>>

\* The documented scenario: holdings AAPL and MSFT worth 100,000, one growth screen
\* with AAPL at rank 2, GOOG and TSLA at rank 1.
LoadScenario ==
    /\ ScreenRowCount = 0
    /\ portfolio_df = <<>>
    /\ portfolio_df' = <<PortfolioRow("AAPL", 50000), PortfolioRow("MSFT", 50000)>>
    /\ g1_df' = <<ScreenRow("AAPL", 2), ScreenRow("GOOG", 1), ScreenRow("TSLA", 1)>>
    /\ Stale
    /\ UNCHANGED <<g2_df, dd_df, notIntel>>

BuildIntelOverlay ==
    /\ intel' = build_intel_overlay(portfolio_df, g1_df, g2_df, dd_df,
                                    CashValue(portfolio_df), TotalValue(portfolio_df))
    /\ plan' = [op |-> "none"]
    /\ UNCHANGED <<g1_df, g2_df, dd_df, portfolio_df, notIntel>>

MergeZacksScreens ==
    /\ intel' = [op |-> "merge_zacks_screens",
                 combined |-> merge_zacks_screens(g1_df, g2_df, dd_df)]
    /\ plan' = [op |-> "none"]
    /\ UNCHANGED <<g1_df, g2_df, dd_df, portfolio_df, notIntel>>

\* The allocation step, over a completed overlay, under one of the settings.
AllocatePlan ==
    /\ intel.op = "build_intel_overlay"
    /\ intel.err = "none"
    /\ \E c \in Configs : plan' = Allocate(intel, TotalValue(portfolio_df), c)
    /\ UNCHANGED <<g1_df, g2_df, dd_df, portfolio_df, intel, notIntel>>

\* The next render.
NewRender ==
    /\ intel.op # "none"
    /\ g1_df' = <<>>
    /\ g2_df' = <<>>
    /\ dd_df' = <<>>
    /\ portfolio_df' = <<>>
    /\ Stale
    /\ UNCHANGED notIntel

IntelNext ==
    \/ AddGrowth1Row
    \/ AddGrowth2Row
    \/ AddDefensiveRow
    \/ AddHolding
    \/ LoadScenario
    \/ BuildIntelOverlay
    \/ MergeZacksScreens
    \/ AllocatePlan
    \/ NewRender

(***************************************************************************)
(* Overlay and allocation claims.                                          *)
(***************************************************************************)
Overlaid == intel.op = "build_intel_overlay" /\ intel.err = "none"

Unified == intel.op = "merge_zacks_screens"

Allocated == plan.op = "allocate" /\ plan.err = "none"

\* The rows the three sources contribute, and the tickers among them.
SourceRows == g1_df \o g2_df \o dd_df

SourceTickers == {r["Ticker"] : r \in Range(SourceRows)}

\* The smallest rank a ticker has in any source; NaN when none of its ranks parsed.
BestRank(t) ==
    LET rs == {r["Zacks Rank"] : r \in {x \in Range(SourceRows) : x["Ticker"] = t}} \ {NaN}
    IN  IF rs = {} THEN NaN ELSE CHOOSE m \in rs : \A x \in rs : m <= x

EntriesOf(t) == {i \in DOMAIN intel.combined : intel.combined[i]["Ticker"] = t}

\* The sources a ticker appears in.
SourcesOf(t) ==
    {lbl \in {"Growth1", "Growth2", "DefensiveDividend"} :
        \E r \in Range(CASE lbl = "Growth1" -> g1_df
                         [] lbl = "Growth2" -> g2_df
                         [] OTHER -> dd_df) : r["Ticker"] = t}

\* C6: for a ticker that several sources contribute, the combined CandidateSet has
\* exactly one entry, and its rank is the smallest rank the ticker has in any source.
\* (The claim also asks for the set of contributing sources on the entry: the
\* overlay's combined table has no source column at all.)
C6_MergeKeepsBestRank ==
    (Overlaid \/ Unified) =>
        \A t \in SourceTickers :
            Cardinality(SourcesOf(t)) >= 2 =>
                /\ Cardinality(EntriesOf(t)) = 1
                /\ \A i \in EntriesOf(t) : intel.combined[i]["Zacks Rank"] = BestRank(t)

HeldTickers == {portfolio_df[i]["Ticker"] : i \in DOMAIN portfolio_df}

\* The Buy bucket read off the CandidateSet: the tickers of its rank-1, not-held entries.
BuyTickers ==
    {e["Ticker"] : e \in {x \in Range(intel.combined) :
                            x["Zacks Rank"] = 1 /\ x["Ticker"] \notin HeldTickers}}

RECURSIVE SumOver(_, _)
SumOver(f, S) ==
    IF S = {} THEN Zero
    ELSE LET t == CHOOSE x \in S : TRUE IN RatAdd(f[t], SumOver(f, S \ {t}))

\* C8: with total_value > 0 and at least one Buy-bucket entry, no allocation
\* percentage is above position_cap_pct and the dollar allocations sum to at most
\* deploy_fraction x total_value.
C8_AllocationCap ==
    (Allocated /\ TotalValue(portfolio_df) > 0 /\ plan.n >= 1) =>
        /\ \A t \in DOMAIN plan.pct : RatLeq(plan.pct[t], Rat(plan.cfg.cap, 1))
        /\ RatLeq(SumOver(plan.amount, DOMAIN plan.amount),
                  Rat(plan.cfg.deploy * TotalValue(portfolio_df), 100))

\* C8 witness: two Buy-bucket entries share a positive total, the even split below the cap.
C8_Witness ==
    /\ Allocated
    /\ TotalValue(portfolio_df) > 0
    /\ plan.n >= 2
    /\ \E t \in DOMAIN plan.pct :
        /\ plan.pct[t] # Zero
        /\ plan.pct[t] # Rat(plan.cfg.cap, 1)

InScenario ==
    /\ portfolio_df = <<PortfolioRow("AAPL", 50000), PortfolioRow("MSFT", 50000)>>
    /\ g1_df = <<ScreenRow("AAPL", 2), ScreenRow("GOOG", 1), ScreenRow("TSLA", 1)>>
    /\ g2_df = <<>>
    /\ dd_df = <<>>

\* C9: every rank-1, not-held ticker of the CandidateSet gets
\* min(position_cap_pct, deploy_fraction / n) of total value, n the number of distinct
\* such tickers; every other entry gets 0; in the documented scenario GOOG and TSLA
\* get 15,000 each and AAPL 0.
C9_AllocationFormula ==
    Allocated =>
        LET n == Cardinality(BuyTickers)
            total == TotalValue(portfolio_df)
            each == IF n = 0 THEN Zero
                    ELSE RatMul(RatMin(Rat(plan.cfg.cap, 1), Rat(plan.cfg.deploy, n)),
                                Rat(total, 100))
        IN  /\ plan.n = n
            /\ \A e \in Range(intel.combined) :
                plan.amount[e["Ticker"]] = IF e["Ticker"] \in BuyTickers THEN each ELSE Zero
            /\ (InScenario /\ plan.cfg.deploy = DeployFractionPct
                    /\ plan.cfg.cap = PositionCapPct) =>
                /\ plan.amount["GOOG"] = Rat(15000, 1)
                /\ plan.amount["TSLA"] = Rat(15000, 1)
                /\ plan.amount["AAPL"] = Zero

\* C9 witness: the documented scenario, allocated under the documented settings.
C9_Witness ==
    /\ Allocated
    /\ InScenario
    /\ plan.cfg.deploy = DeployFractionPct
    /\ plan.cfg.cap = PositionCapPct
    /\ plan.n = 2

\* C10: when total_value is 0 or the Buy bucket is empty, the overlay and the
\* allocation step complete without a division error and every allocation is 0.
C10_ZeroGuard ==
    (intel.op = "build_intel_overlay"
        /\ (TotalValue(portfolio_df) = 0 \/ (intel.err = "none" /\ intel.new_rank1 = <<>>))) =>
        /\ intel.err = "none"
        /\ plan.op = "allocate" =>
            /\ plan.err = "none"
            /\ \A t \in DOMAIN plan.amount : plan.amount[t] = Zero

\* C10 witness: a plan over a non-empty Buy bucket and a total value of 0.
C10_Witness ==
    /\ Overlaid
    /\ Allocated
    /\ TotalValue(portfolio_df) = 0
    /\ portfolio_df # <<>>
    /\ intel.new_rank1 # <<>>

(***************************************************************************)
(* Tactical scoring: apply_tactical_rules over the rows crossmatch_with_   *)
(* zacks hands it, the inner join of the portfolio with a screen (so every *)
(* row is a held position).                                                *)
(***************************************************************************)
MaxZacksRank == 5

MaxResultRows == 2

\* The Zacks Rank cells after pd.to_numeric: 1..5, a number outside, or NaN.
ZacksRanks == 1..MaxZacksRank \cup {MaxZacksRank + 1, NaN}

\* (Cost Basis, Current Price) of a holding: gains of -20, 0, 20, 25 and 40 percent,
\* a zero and an unparseable cost basis.
CostAndPrice ==
    {<<100, 80>>, <<100, 100>>, <<100, 120>>, <<100, 125>>, <<100, 140>>,
     <<0, 100>>, <<NaN, 100>>}

\* The rows of a portfolio file with a Cost Basis column, and of one without.
ResultRows ==
    {("Zacks Rank" :> r) @@ ("Cost Basis" :> cp[1]) @@ ("Current Price" :> cp[2]) :
        r \in ZacksRanks, cp \in CostAndPrice}
    \cup {("Zacks Rank" :> r) @@ ("Current Price" :> 100) : r \in ZacksRanks}

\* A Gain/Loss % cell: None, or the percentage num / den (den > 0).
Pct(n, d) == [kind |-> "pct", num |-> n, den |-> d]

Above(g, k) == g.kind = "pct" /\ g.num > k * g.den

Below(g, k) == g.kind = "pct" /\ g.num < k * g.den

\* calculate_unrealized_gain(row)
calculate_unrealized_gain(row) ==
    IF "Cost Basis" \in DOMAIN row /\ row["Cost Basis"] # NaN /\ row["Cost Basis"] > 0
    THEN Pct((row["Current Price"] - row["Cost Basis"]) * 100, row["Cost Basis"])
    ELSE None

\* zacks_signal(rank): mapping.get(rank, "No Rating")
zacks_signal(rank) ==
    CASE rank = 1 -> "Strong Buy"
      [] rank = 2 -> "Buy"
      [] rank = 3 -> "Hold"
      [] rank = 4 -> "Trim"
      [] rank = 5 -> "Sell"
      [] OTHER -> "No Rating"

\* df["Gain/Loss %"] > k and df["Gain/Loss %"] < k: the boolean mask over the rows.
GainAbove(df, k) == [i \in DOMAIN df |-> Above(df[i]["Gain/Loss %"], k)]

GainBelow(df, k) == [i \in DOMAIN df |-> Below(df[i]["Gain/Loss %"], k)]

\* df.loc[(df["Action"] == was) & mask, "Action"] = becomes
Relabel(df, was, mask, becomes) ==
    [i \in DOMAIN df |->
        IF df[i]["Action"] = was /\ mask[i]
        THEN [df[i] EXCEPT !["Action"] = becomes]
        ELSE df[i]]

\* The first refinement with >= for >.
TrimWinnersInclusive(df) ==
    Relabel(df, "Hold",
            [i \in DOMAIN df |-> LET g == df[i]["Gain/Loss %"]
                                 IN  g.kind = "pct" /\ g.num >= 20 * g.den],
            "Trim")

TrimWinners(df) == Relabel(df, "Hold", GainAbove(df, 20), "Trim")

\* The second refinement reading the action the first one left.
TakeProfitsOfTrim(df) == Relabel(df, "Trim", GainAbove(df, 30), "Sell - Take Profits")

TakeProfits(df) == Relabel(df, "Sell", GainAbove(df, 30), "Sell - Take Profits")

DipBuy(df) == Relabel(df, "Buy", GainBelow(df, 0 - 10), "Buy More (Dip Buy)")

apply_tactical_rules(df) ==
    LET gained == [i \in DOMAIN df |->
                    df[i] @@ ("Gain/Loss %" :> calculate_unrealized_gain(df[i]))]
        mapped == [i \in DOMAIN df |->
                    gained[i] @@ ("Action" :> zacks_signal(gained[i]["Zacks Rank"]))]
    IN  DipBuy(TakeProfits(TrimWinners(mapped)))

ClassInit ==
    /\ result = <<>>
    /\ scored = FALSE

\* One more matched row; every row of a table has the table's columns.
AddResultRow ==
    /\ ~scored
    /\ Len(result) < MaxResultRows
    /\ \E row \in ResultRows :
        /\ result # <<>> => DOMAIN row = DOMAIN result[1]
        /\ result' = Append(result, row)
    /\ UNCHANGED <<scored, notClass>>

\* crossmatch_with_zacks scores the matches it found.
ApplyTacticalRules ==
    /\ ~scored
    /\ result # <<>>
    /\ result' = apply_tactical_rules(result)
    /\ scored' = TRUE
    /\ UNCHANGED notClass

\* The next run of the engine.
NextRun ==
    /\ scored
    /\ result' = <<>>
    /\ scored' = FALSE
    /\ UNCHANGED notClass

ClassNext ==
    \/ AddResultRow
    \/ ApplyTacticalRules
    \/ NextRun

(***************************************************************************)
(* Classification claims.                                                  *)
(***************************************************************************)
\* The action table of the design, by rank and held status.
DesignAction(rank, held) ==
    CASE rank = 1 -> IF held THEN "Hold" ELSE "Buy"
      [] rank = 2 -> IF held THEN "Review" ELSE "Watch"
      [] rank # NaN /\ rank >= 3 -> IF held THEN "Caution/Trim" ELSE "Avoid"
      [] OTHER -> "Review (unclassified)"

HasGain(row) ==
    "Cost Basis" \in DOMAIN row /\ row["Cost Basis"] # NaN /\ row["Cost Basis"] > 0

GainTimesCost(row) == (row["Current Price"] - row["Cost Basis"]) * 100

\* The action the scoring engine gives, by rank and gain.
EngineAction(row) ==
    LET rank == row["Zacks Rank"]
        c == IF HasGain(row) THEN row["Cost Basis"] ELSE 0
        g == IF HasGain(row) THEN GainTimesCost(row) ELSE 0
    IN  CASE rank = 1 -> "Strong Buy"
          [] rank = 2 -> IF HasGain(row) /\ g < (0 - 10) * c
                         THEN "Buy More (Dip Buy)" ELSE "Buy"
          [] rank = 3 -> IF HasGain(row) /\ g > 20 * c THEN "Trim" ELSE "Hold"
          [] rank = 4 -> "Trim"
          [] rank = 5 -> IF HasGain(row) /\ g > 30 * c
                         THEN "Sell - Take Profits" ELSE "Sell"
          [] OTHER -> "No Rating"

RankAction(rank) ==
    IF rank \in 1..MaxZacksRank
    THEN <<"Strong Buy", "Buy", "Hold", "Trim", "Sell">>[rank]
    ELSE "No Rating"

\* The refinements that apply to a scored row, by rank and gain.
Refinements(row) ==
    LET rank == row["Zacks Rank"]
        gain == row["Gain/Loss %"]
    IN  (IF rank = 3 /\ Above(gain, 20) THEN {"Trim"} ELSE {})
            \cup (IF rank = 5 /\ Above(gain, 30) THEN {"Sell - Take Profits"} ELSE {})
            \cup (IF rank = 2 /\ Below(gain, 0 - 10) THEN {"Buy More (Dip Buy)"} ELSE {})

\* C27: the action is the rank mapping (1 Strong Buy, 2 Buy, 3 Hold, 4 Trim, 5 Sell,
\* anything else No Rating), changed in exactly three cases: rank 3 with gain > 20%
\* becomes Trim, rank 5 with gain > 30% becomes Sell - Take Profits, rank 2 with gain
\* < -10% becomes Buy More (Dip Buy); at most one refinement applies to a row, and rows
\* of rank 1 or 4, without a rating or without a gain keep the mapped action.
C27_ThreeRefinements ==
    scored => \A i \in DOMAIN result :
        LET row == result[i]
            rank == row["Zacks Rank"]
        IN  /\ Cardinality(Refinements(row)) <= 1
            /\ row["Action"] \in (IF Refinements(row) = {} THEN {RankAction(rank)}
                                  ELSE Refinements(row))
            /\ row["Action"] # RankAction(rank) <=> Refinements(row) # {}
            /\ (rank \notin {2, 3, 5} \/ row["Gain/Loss %"] = None)
                    => row["Action"] = RankAction(rank)

\* A rank-3 holding 40% up, relabelled Trim, beside a rank-2 holding 20% down, relabelled
\* Buy More (Dip Buy).
C27_Witness ==
    /\ scored
    /\ \E i, j \in DOMAIN result :
        /\ result[i]["Zacks Rank"] = 3 /\ Above(result[i]["Gain/Loss %"], 30)
        /\ result[i]["Action"] = "Trim"
        /\ result[j]["Zacks Rank"] = 2 /\ result[j]["Action"] = "Buy More (Dip Buy)"

MaxCellLen == 2

Str(cs) == [kind |-> "str", chars |-> cs]

Num(neg, mag, int) == [kind |-> "num", neg |-> neg /\ mag.num # 0, mag |-> mag, int |-> int]

Missing == [kind |-> "nan"]

DigitChars == <<"0", "1", "2", "3", "4", "5", "6", "7", "8", "9">>

IsDigit(c) == \E i \in DOMAIN DigitChars : DigitChars[i] = c

DigitVal(c) == (CHOOSE i \in DOMAIN DigitChars : DigitChars[i] = c) - 1

RECURSIVE Pow10(_)
Pow10(k) == IF k = 0 THEN 1 ELSE 10 * Pow10(k - 1)

\* The number a run of digits writes ("" reads as 0).
RECURSIVE DigitsValue(_)
DigitsValue(ds) ==
    IF ds = <<>> THEN 0 ELSE 10 * DigitsValue(Front(ds)) + DigitVal(Last(ds))

\* The decimal digits of n >= 0.
RECURSIVE DigitsOf(_)
DigitsOf(n) ==
    IF n < 10 THEN <<DigitChars[n + 1]>>
    ELSE Append(DigitsOf(n \div 10), DigitChars[(n % 10) + 1])

\* str.strip(): leading and trailing blanks go.
RECURSIVE LStrip(_)
LStrip(cs) == IF cs # <<>> /\ cs[1] = " " THEN LStrip(Tail(cs)) ELSE cs

RECURSIVE RStrip(_)
RStrip(cs) == IF cs # <<>> /\ Last(cs) = " " THEN RStrip(Front(cs)) ELSE cs

Strip(cs) == RStrip(LStrip(cs))

LowerLetters ==
    <<"a", "b", "c", "d", "e", "f", "g", "h", "i", "j", "k", "l", "m",
      "n", "o", "p", "q", "r", "s", "t", "u", "v", "w", "x", "y", "z">>

UpperLetters ==
    <<"A", "B", "C", "D", "E", "F", "G", "H", "I", "J", "K", "L", "M",
      "N", "O", "P", "Q", "R", "S", "T", "U", "V", "W", "X", "Y", "Z">>

IsUpperAZ(c) == \E i \in DOMAIN UpperLetters : UpperLetters[i] = c

IsLowerAZ(c) == \E i \in DOMAIN LowerLetters : LowerLetters[i] = c

\* str.upper() and str.lower()
UpperChar(c) ==
    IF IsLowerAZ(c) THEN UpperLetters[CHOOSE i \in DOMAIN LowerLetters : LowerLetters[i] = c]
    ELSE c

LowerChar(c) ==
    IF IsUpperAZ(c) THEN LowerLetters[CHOOSE i \in DOMAIN UpperLetters : UpperLetters[i] = c]
    ELSE c

Upper(cs) == [i \in DOMAIN cs |-> UpperChar(cs[i])]

Lower(cs) == [i \in DOMAIN cs |-> LowerChar(cs[i])]

\* str.replace("[...]", "", regex=True) with a character class.
RemoveChars(cs, class) == SelectSeq(cs, LAMBDA c : c \notin class)

\* The smallest k with den dividing 10^k: the decimals a float's repr writes.
RECURSIVE Decimals(_, _)
Decimals(den, k) == IF Pow10(k) % den = 0 THEN k ELSE Decimals(den, k + 1)

\* n written with k digits, zeros in front.
RECURSIVE ZeroPad(_, _)
ZeroPad(ds, k) == IF Len(ds) >= k THEN ds ELSE ZeroPad(<<"0">> \o ds, k)

\* str(x) of a number: "5" in an int64 column, "5.0" / "-1234.56" in a float64 one.
FormatNum(x) ==
    LET sign == IF x.neg THEN <<"-">> ELSE <<>>
        whole == DigitsOf(x.mag.num \div x.mag.den)
        k == Decimals(x.mag.den, 0)
        frac == (x.mag.num % x.mag.den) * (Pow10(k) \div x.mag.den)
    IN  IF x.int THEN sign \o whole
        ELSE sign \o whole \o <<".">>
                \o (IF k = 0 THEN <<"0">> ELSE ZeroPad(DigitsOf(frac), k))

\* astype(str) of one cell.
AsStr(x) ==
    CASE x.kind = "str" -> x.chars
      [] x.kind = "num" -> FormatNum(x)
      [] OTHER -> <<"n", "a", "n">>

\* What the numeric parser makes of one string: a number (int |-> the literal has no
\* point), NaN for "" and "nan", or no parse.
Unparsed == [kind |-> "fail"]

ParseNum(cs) ==
    LET signed == cs # <<>> /\ cs[1] \in {"-", "+"}
        body == IF signed THEN Tail(cs) ELSE cs
        dots == {i \in DOMAIN body : body[i] = "."}
        digits == SelectSeq(body, IsDigit)
        k == IF dots = {} THEN 0 ELSE Len(body) - (CHOOSE i \in dots : TRUE)
    IN  IF cs = <<>> \/ cs = <<"n", "a", "n">> THEN Missing
        ELSE IF /\ digits # <<>>
                /\ Cardinality(dots) <= 1
                /\ \A i \in DOMAIN body : IsDigit(body[i]) \/ body[i] = "."
             THEN Num(cs[1] = "-", Rat(DigitsValue(digits), Pow10(k)), dots = {})
             ELSE Unparsed

\* The parse of one cell of a column: strings are parsed, numbers and NaN pass.
ParseCell(x) == IF x.kind = "str" THEN ParseNum(x.chars) ELSE x

\* The dtype a parsed column gets: int64 when every cell is an integer, else float64.
WithDtype(col) ==
    LET ints == \A i \in DOMAIN col : col[i].kind = "num" /\ col[i].int
    IN  [i \in DOMAIN col |->
            IF col[i].kind = "num" THEN Num(col[i].neg, col[i].mag, ints) ELSE col[i]]

\* A lenient parse: a cell that does not parse is read by its digits alone.
ToNumericLenient(col) ==
    WithDtype([i \in DOMAIN col |->
        LET x == ParseCell(col[i])
        IN  IF x.kind = "fail"
            THEN Num(FALSE, Rat(DigitsValue(SelectSeq(col[i].chars, IsDigit)), 1), TRUE)
            ELSE x])

\* pd.to_numeric(col, errors="coerce"): what does not parse becomes NaN.
ToNumericCoerce(col) ==
    WithDtype([i \in DOMAIN col |->
        LET x == ParseCell(col[i]) IN IF x.kind = "fail" THEN Missing ELSE x])

\* pd.to_numeric(col, errors="ignore"): one cell that does not parse leaves the whole
\* column as it was.
ToNumericIgnore(col) ==
    IF \E i \in DOMAIN col : ParseCell(col[i]).kind = "fail" THEN col
    ELSE WithDtype([i \in DOMAIN col |-> ParseCell(col[i])])

(***************************************************************************)
(* Column Normalizer: the portfolio normalization of the base patch, the   *)
(* portfolio engine's load_portfolio with compute_portfolio_metrics, and   *)
(* normalize_zacks.  A raw table is what read_csv returns: string cells,   *)
(* NaN for a blank one.                                                    *)
(***************************************************************************)
MaxRawRows == 2

Columns(df) == IF df = <<>> THEN {} ELSE DOMAIN df[1]

Column(df, c) == [i \in DOMAIN df |-> df[i][c]]

\* df[c] = col
SetColumn(df, c, col) == [i \in DOMAIN df |-> (c :> col[i]) @@ df[i]]

\* df.rename(columns=f), f the new name of every header name.
RenameColumns(df, f) ==
    [i \in DOMAIN df |->
        [c \in {f[x] : x \in DOMAIN df[i]} |->
            df[i][CHOOSE x \in DOMAIN df[i] : f[x] = c]]]

\* The header names of the files, in the order the files have them.
ColumnOrder ==
    <<"Symbol", " Symbol ", "Ticker", "Description", "Company",
      "Current Value", "Cost Basis", "Last Price", "Quantity", "Total Gain/Loss Percent",
      "Cost Basis Total", "Total Gain/Loss Dollar",
      "Zacks Rank", "Rank", "Score",
      "cost basis total", "total gain/loss dollar",
      "symbol", "ticker", "description", "company", "current value", "cost basis",
      "last price", "quantity", "total gain/loss percent", "zacks rank", "rank", "score",
      "MarketValue", "MarketPrice", "Shares", "GainLoss%", "CostBasis", "GainLoss$",
      "Held?", "_merge">>

ColumnNames == Range(ColumnOrder)

OrderedColumns(df) == SelectSeq(ColumnOrder, LAMBDA c : c \in Columns(df))

\* c.strip() of every header name.
StripName == [c \in ColumnNames |-> IF c = " Symbol " THEN "Symbol" ELSE c]

\* c.lower() of every header name.
LowerName ==
    [c \in ColumnNames |->
    CASE c = "Symbol" -> "symbol"
      [] c = " Symbol " -> " symbol "
      [] c = "Ticker" -> "ticker"
      [] c = "Description" -> "description"
      [] c = "Company" -> "company"
      [] c = "Current Value" -> "current value"
      [] c = "Cost Basis" -> "cost basis"
      [] c = "Last Price" -> "last price"
      [] c = "Quantity" -> "quantity"
      [] c = "Total Gain/Loss Percent" -> "total gain/loss percent"
      [] c = "Cost Basis Total" -> "cost basis total"
      [] c = "Total Gain/Loss Dollar" -> "total gain/loss dollar"
      [] c = "Zacks Rank" -> "zacks rank"
      [] c = "Rank" -> "rank"
      [] c = "Score" -> "score"
      [] OTHER -> c]

\* The rename of the Fidelity headers.
FidelityName ==
    [c \in ColumnNames |->
    CASE c = "Symbol" -> "Ticker"
      [] c = "Quantity" -> "Shares"
      [] c = "Last Price" -> "MarketPrice"
      [] c = "Cost Basis Total" -> "CostBasis"
      [] c = "Current Value" -> "MarketValue"
      [] c = "Total Gain/Loss Dollar" -> "GainLoss$"
      [] c = "Total Gain/Loss Percent" -> "GainLoss%"
      [] OTHER -> c]

\* Signed value of a numeric cell, as a rational.
Val(x) == Rat(IF x.neg THEN 0 - x.mag.num ELSE x.mag.num, x.mag.den)

\* The cell of a signed rational, in a float64 column.
FloatCell(r) == Num(r.num < 0, Rat(IF r.num < 0 THEN 0 - r.num ELSE r.num, r.den), FALSE)

\* Series.sum(): NaN is skipped.
RECURSIVE SumCells(_)
SumCells(col) ==
    IF col = <<>> THEN Zero
    ELSE RatAdd(SumCells(Front(col)),
                IF Last(col).kind = "num" THEN Val(Last(col)) ELSE Zero)

\* Series.fillna(0)
FillNa0(col) ==
    [i \in DOMAIN col |-> IF col[i].kind = "nan" THEN Num(FALSE, Zero, FALSE) ELSE col[i]]

\* a * b of two numeric columns, NaN where either is.
MulColumns(a, b) ==
    [i \in DOMAIN a |->
        IF a[i].kind = "num" /\ b[i].kind = "num"
        THEN FloatCell(RatMul(Val(a[i]), Val(b[i])))
        ELSE Missing]

\* portfolio["Ticker"].astype(str).str.strip().str.upper(), then every character
\* outside A-Z removed.
normalize_ticker(x) == Str(SelectSeq(Upper(Strip(AsStr(x))), IsUpperAZ))

\* The cleaning with "." in the character class as well.
clean_money_cell_no_point(x) ==
    Str(Strip(RemoveChars(AsStr(x), {"$", ",", "(", ")", "%", "+", "."})))

\* .astype(str).str.replace('[\$,()%+]', '', regex=True).str.strip() of one cell.
clean_money_cell(x) == Str(Strip(RemoveChars(AsStr(x), {"$", ",", "(", ")", "%", "+"})))

\* One money column cleaned and parsed.
clean_money_col(col) == ToNumericCoerce([i \in DOMAIN col |-> clean_money_cell(col[i])])

MoneyCols == <<"MarketPrice", "CostBasis", "MarketValue", "GainLoss$", "GainLoss%">>

\* for col in money_cols: if col in portfolio.columns: clean it.
RECURSIVE clean_money_cols(_, _)
clean_money_cols(df, cols) ==
    IF cols = <<>> THEN df
    ELSE LET d == clean_money_cols(df, Front(cols))
             c == Last(cols)
         IN  IF c \in Columns(d) THEN SetColumn(d, c, clean_money_col(Column(d, c))) ELSE d

\* The portfolio normalization of the base patch, from the stripped headers to the
\* computed MarketValue.
normalize_portfolio(df) ==
    LET stripped == RenameColumns(df, StripName)
        renamed == RenameColumns(stripped, FidelityName)
        tickers == IF "Ticker" \in Columns(renamed)
                   THEN SetColumn(renamed, "Ticker",
                            [i \in DOMAIN renamed |-> normalize_ticker(renamed[i]["Ticker"])])
                   ELSE renamed
        money == clean_money_cols(tickers, MoneyCols)
        shares == IF "Shares" \in Columns(money)
                  THEN SetColumn(money, "Shares", ToNumericCoerce(Column(money, "Shares")))
                  ELSE money
    IN  IF "MarketValue" \notin Columns(shares)
            /\ {"Shares", "MarketPrice"} \subseteq Columns(shares)
        THEN SetColumn(shares, "MarketValue",
                       MulColumns(Column(shares, "Shares"), Column(shares, "MarketPrice")))
        ELSE shares

\* total_value = portfolio["MarketValue"].sum() if the column is there, else 0
portfolio_total(df) ==
    IF "MarketValue" \in Columns(df) THEN SumCells(Column(df, "MarketValue")) ELSE Zero

(***************************************************************************)
(* The portfolio engine: load_portfolio and compute_portfolio_metrics.     *)
(***************************************************************************)
\* The first "(" that a ")" follows, and that ")": where r"\((.*?)\)" matches first.
OpenAt(cs) ==
    LET opens == {i \in DOMAIN cs : cs[i] = "(" /\ \E j \in DOMAIN cs : j > i /\ cs[j] = ")"}
    IN  IF opens = {} THEN 0 ELSE CHOOSE i \in opens : \A k \in opens : i <= k

CloseAfter(cs, i) ==
    CHOOSE j \in DOMAIN cs :
        /\ j > i /\ cs[j] = ")"
        /\ \A k \in DOMAIN cs : (k > i /\ cs[k] = ")") => j <= k

\* re.sub(r"\((.*?)\)", r"-\1", s): every parenthesised run becomes "-" and the run.
RECURSIVE ReplaceParens(_)
ReplaceParens(cs) ==
    LET i == OpenAt(cs)
        j == CloseAfter(cs, i)
    IN  IF i = 0 THEN cs
        ELSE SubSeq(cs, 1, i - 1) \o <<"-">> \o SubSeq(cs, i + 1, j - 1)
                \o ReplaceParens(SubSeq(cs, j + 1, Len(cs)))

\* df.replace(r"\((.*?)\)", r"-\1", regex=True).replace(r"[\$,]", "", regex=True),
\* one cell: only strings are touched.
pe_clean_cell(x) ==
    IF x.kind = "str" THEN Str(RemoveChars(ReplaceParens(x.chars), {"$", ","})) ELSE x

\* df.apply(lambda col: pd.to_numeric(col, errors="ignore")), column by column.
RECURSIVE ToNumericIgnoreAll(_, _)
ToNumericIgnoreAll(df, cols) ==
    IF cols = <<>> THEN df
    ELSE LET d == ToNumericIgnoreAll(df, Front(cols))
         IN  SetColumn(d, Last(cols), ToNumericIgnore(Column(d, Last(cols))))

SymbolToTicker == [c \in ColumnNames |-> IF c = "Symbol" THEN "Ticker" ELSE c]

\* load_portfolio() of the portfolio engine, from the table load_latest_file read.
pe_load_portfolio(df) ==
    LET cleaned == [i \in DOMAIN df |-> [c \in DOMAIN df[i] |-> pe_clean_cell(df[i][c])]]
        numeric == ToNumericIgnoreAll(cleaned, OrderedColumns(cleaned))
    IN  IF "Symbol" \in Columns(numeric) THEN RenameColumns(numeric, SymbolToTicker)
        ELSE numeric

\* a / b of two signed rationals, b not 0.
RatDiv(a, b) ==
    IF b.num > 0 THEN Rat(a.num * b.den, a.den * b.num)
    ELSE Rat(0 - a.num * b.den, a.den * (0 - b.num))

RatSub(a, b) == RatAdd(a, Rat(0 - b.num, b.den))

\* compute_synthetic_gain(df): (cv - cb) / cb * 100 per row, 0 where it has no value.
compute_synthetic_gain(df) ==
    IF {"Current Value", "Cost Basis"} \subseteq Columns(df)
    THEN LET cv == FillNa0(ToNumericCoerce(Column(df, "Current Value")))
             cb == ToNumericCoerce(Column(df, "Cost Basis"))
         IN  [i \in DOMAIN df |->
                IF cb[i].kind = "num" /\ cb[i].mag.num # 0
                THEN FloatCell(RatMul(RatDiv(RatSub(Val(cv[i]), Val(cb[i])), Val(cb[i])),
                                      Rat(100, 1)))
                ELSE Num(FALSE, Zero, FALSE)]
    ELSE [i \in DOMAIN df |-> Num(FALSE, Zero, FALSE)]

GainCandidates ==
    <<"Gain/Loss %", "Total Gain/Loss Percent", "Today's Gain/Loss Percent",
      "GainLossPct", "% Gain/Loss", "%Chg">>

NoAverage == [kind |-> "None"]

Average(r) == [kind |-> "avg", val |-> r]

\* cv = pd.to_numeric(df["Current Value"], errors="coerce").fillna(0), if the column
\* is there.
metrics_cv(df) ==
    IF "Current Value" \in Columns(df)
    THEN FillNa0(ToNumericCoerce(Column(df, "Current Value")))
    ELSE <<>>

\* numeric_gain: the first gain column found, coerced and filled, else the synthetic gain.
metrics_gain(df) ==
    LET found == SelectSeq(GainCandidates, LAMBDA c : c \in Columns(df))
    IN  IF found # <<>> THEN FillNa0(ToNumericCoerce(Column(df, found[1])))
        ELSE compute_synthetic_gain(df)

\* (numeric_gain * cv).sum()
metrics_weighted(df) ==
    IF "Current Value" \in Columns(df)
    THEN SumCells(MulColumns(metrics_gain(df), metrics_cv(df)))
    ELSE Zero

\* compute_portfolio_metrics(df): (total_value, cash_value, avg_gain).
compute_portfolio_metrics(df) ==
    IF df = <<>> THEN [total |-> Zero, cash |-> Zero, avg |-> NoAverage]
    ELSE LET has == "Current Value" \in Columns(df)
             total == SumCells(metrics_cv(df))
             cash_rows == IF "Ticker" \in Columns(df)
                          THEN SelectSeq(df, LAMBDA r :
                                   Lower(AsStr(r["Ticker"])) = <<"c", "a", "s", "h">>)
                          ELSE <<>>
         IN  IF cash_rows # <<>> /\ ~has
             THEN [total |-> Zero, cash |-> Zero, avg |-> NoAverage]
             ELSE [total |-> total,
                   cash |-> SumCells(metrics_cv(cash_rows)),
                   avg |-> IF total.num > 0
                           THEN Average(RatDiv(metrics_weighted(df), total))
                           ELSE NoAverage]

(***************************************************************************)
(* normalize_zacks(df): the screen's Ticker and Zacks Rank columns.        *)
(***************************************************************************)
TickerKeys == <<"ticker", "symbol", "ticker symbol", "tk">>

RankKeys == <<"zacks rank", "zacksrank", "rank", "zacks_rank">>

\* str.match(r"^[A-Z.\-]{1,6}$")
LooksLikeTicker(cs) ==
    /\ Len(cs) \in 1..6
    /\ \A i \in DOMAIN cs : IsUpperAZ(cs[i]) \/ cs[i] \in {".", "-"}

normalize_zacks(df) ==
    IF df = <<>> THEN df
    ELSE LET low == RenameColumns(df, LowerName)
             tkeys == SelectSeq(TickerKeys, LAMBDA k : k \in Columns(low))
             guess == SelectSeq(OrderedColumns(low), LAMBDA c :
                          \E i \in DOMAIN low : LooksLikeTicker(AsStr(low[i][c])))
             ticker_col == IF tkeys # <<>> THEN <<tkeys[1]>>
                           ELSE IF guess # <<>> THEN <<guess[1]>> ELSE <<>>
             rkeys == SelectSeq(RankKeys, LAMBDA k : k \in Columns(low))
             rank == IF rkeys = <<>> THEN <<>> ELSE ToNumericCoerce(Column(low, rkeys[1]))
         IN  IF ticker_col = <<>> /\ rkeys = <<>> THEN <<>>
             ELSE [i \in DOMAIN low |->
                    (IF ticker_col = <<>> THEN <<>>
                     ELSE ("Ticker" :> Str(AsStr(low[i][ticker_col[1]]))))
                    @@ (IF rkeys = <<>> THEN <<>> ELSE ("Zacks Rank" :> rank[i]))]

(***************************************************************************)
(* The raw tables and the normalizer runs.                                 *)
(***************************************************************************)
\* Every string of 1..MaxCellLen characters of an alphabet.
Strings(alphabet) == UNION {[1..n -> alphabet] : n \in 1..MaxCellLen}

\* The ticker cells of a raw file: letters of either case, blanks and punctuation; a
\* number; a blank cell (NaN); the cash line and a share class.
TickerCells ==
    {Str(cs) : cs \in Strings({"A", "a", " ", "*"})}
        \cup {Missing, Str(<<"1">>), Str(<<"c", "a", "s", "h">>),
              Str(<<"B", "R", "K", ".", "B">>)}

\* A description, a company name and a plain ticker.
NameCells == {Str(<<"A", " ", "a">>), Str(<<"A", "a">>), Str(<<"A">>)}

\* The cells of a numeric column: currency, percent, sign and digits; parentheses; a
\* blank cell; text.
NumericCells ==
    {Str(cs) : cs \in Strings({"$", "%", "-", "1", "."})}
        \cup {Missing,
              Str(<<"n", "/", "a">>),
              Str(<<"(", "1", ")">>),
              Str(<<"(", "1">>),
              Str(<<"$", "1", ",", "2", "3", "4", ".", "5", "6">>),
              Str(<<"(", "1", ",", "2", "3", "4", ".", "5", "6", ")">>),
              Str(<<"1", "2", ".", "3", "%">>)}

\* The cells of a rank column.
RankCells ==
    {Missing, Str(<<"1">>), Str(<<"2">>), Str(<<"1", ".", "0">>), Str(<<"#", "1">>)}

\* The header layouts: the column of the ticker cell (tcol) and of the numeric cell
\* (ncol), the cells they can hold, and the columns every row has the same way.
Schemes ==
    {[tcol |-> "Symbol", ncol |-> "Current Value", rest |-> <<>>,
      tickers |-> TickerCells, numbers |-> NumericCells],
     [tcol |-> "Symbol", ncol |-> "Cost Basis",
      rest |-> ("Current Value" :> Str(<<"2">>)),
      tickers |-> NameCells, numbers |-> NumericCells],
     [tcol |-> "Ticker", ncol |-> "Total Gain/Loss Percent",
      rest |-> ("Current Value" :> Str(<<"1", "0", "0">>)),
      tickers |-> NameCells, numbers |-> NumericCells],
     [tcol |-> " Symbol ", ncol |-> "Last Price", rest |-> ("Quantity" :> Str(<<"2">>)),
      tickers |-> NameCells, numbers |-> NumericCells],
     [tcol |-> "Description", ncol |-> "Current Value", rest |-> <<>>,
      tickers |-> NameCells, numbers |-> NumericCells],
     [tcol |-> "Ticker", ncol |-> "Zacks Rank", rest |-> <<>>,
      tickers |-> TickerCells, numbers |-> RankCells],
     [tcol |-> "Symbol", ncol |-> "Rank", rest |-> <<>>,
      tickers |-> NameCells, numbers |-> RankCells],
     [tcol |-> "Company", ncol |-> "Zacks Rank", rest |-> <<>>,
      tickers |-> NameCells, numbers |-> RankCells],
     [tcol |-> "Ticker", ncol |-> "Score", rest |-> <<>>,
      tickers |-> NameCells, numbers |-> RankCells]}

RawRow(h, t, n) == (h.tcol :> t) @@ (h.ncol :> n) @@ h.rest

\* The rows of a file: any ticker cell beside a plain number, any numeric cell beside a
\* plain ticker, and the cash line with a currency amount or text.
RawRows(h) ==
    {RawRow(h, t, Str(<<"1">>)) : t \in h.tickers}
        \cup {RawRow(h, Str(<<"A">>), n) : n \in h.numbers}
        \cup {RawRow(h, Str(<<"c", "a", "s", "h">>), n) :
                n \in {Str(<<"$", "1">>), Str(<<"n", "/", "a">>)}}

NormInit ==
    /\ raw_df = <<>>
    /\ norm = [op |-> "none"]

\* read_csv returns one more row of the file.
AddRawRow ==
    /\ Len(raw_df) < MaxRawRows
    /\ \E h \in Schemes : \E r \in RawRows(h) :
        /\ raw_df # <<>> => DOMAIN r = DOMAIN raw_df[1]
        /\ raw_df' = Append(raw_df, r)
    /\ norm' = [op |-> "none"]
    /\ UNCHANGED notNorm

\* The base patch normalizes the portfolio and totals it.
NormalizePortfolio ==
    /\ raw_df # <<>>
    /\ LET out == normalize_portfolio(raw_df)
       IN  norm' = [op |-> "normalize_portfolio", pass |-> 1, out |-> out,
                    total |-> portfolio_total(out)]
    /\ UNCHANGED <<raw_df, notNorm>>

\* The portfolio engine loads the portfolio and computes its metrics.
LoadPortfolioModule ==
    /\ raw_df # <<>>
    /\ LET out == pe_load_portfolio(raw_df)
       IN  norm' = [op |-> "load_portfolio", pass |-> 1, out |-> out,
                    weighted |-> metrics_weighted(out),
                    metrics |-> compute_portfolio_metrics(out)]
    /\ UNCHANGED <<raw_df, notNorm>>

NormalizeZacks ==
    /\ raw_df # <<>>
    /\ norm' = [op |-> "normalize_zacks", pass |-> 1, out |-> normalize_zacks(raw_df)]
    /\ UNCHANGED <<raw_df, notNorm>>

\* The normalizer is run again on its own output.
Renormalize ==
    /\ norm.op \in {"normalize_portfolio", "normalize_zacks"}
    /\ norm.pass = 1
    /\ LET out == IF norm.op = "normalize_zacks" THEN normalize_zacks(norm.out)
                  ELSE normalize_portfolio(norm.out)
       IN  norm' = [op |-> norm.op, pass |-> 2, out |-> out, first |-> norm.out,
                    total |-> portfolio_total(out)]
    /\ UNCHANGED <<raw_df, notNorm>>

\* The next file.
NewFile ==
    /\ norm.op # "none"
    /\ raw_df' = <<>>
    /\ norm' = [op |-> "none"]
    /\ UNCHANGED notNorm

NormNext ==
    \/ AddRawRow
    \/ NormalizePortfolio
    \/ LoadPortfolioModule
    \/ NormalizeZacks
    \/ Renormalize
    \/ NewFile

(***************************************************************************)
(* Column Normalizer: numeric cleaning, idempotence, tickers, degraded     *)
(* inputs.                                                                 *)
(***************************************************************************)
FirstPass(op) == norm.op = op /\ norm.pass = 1

\* The name a raw header has in the output of the run.
OutName(c) ==
    IF norm.op = "normalize_portfolio" THEN FidelityName[StripName[c]] ELSE SymbolToTicker[c]

\* The raw headers of the numeric columns both portfolio cleaners are given.
ValueHeaders == {"Current Value", "Last Price", "Total Gain/Loss Percent"}

Currency == Str(<<"$", "1", ",", "2", "3", "4", ".", "5", "6">>)

Parenthesised == Str(<<"(", "1", ",", "2", "3", "4", ".", "5", "6", ")">>)

Percent == Str(<<"1", "2", ".", "3", "%">>)

ExpectedValue ==
    (Currency :> Rat(123456, 100))
        @@ (Parenthesised :> Rat(0 - 123456, 100))
        @@ (Percent :> Rat(123, 10))

\* C14: in each portfolio cleaner, a cell "$1,234.56" of a numeric column cleans to
\* 1234.56, a cell "(1,234.56)" to -1234.56 and a cell "12.3%" to 12.3.
C14_NumericCleaning ==
    (FirstPass("normalize_portfolio") \/ FirstPass("load_portfolio")) =>
        \A i \in DOMAIN raw_df : \A c \in DOMAIN raw_df[i] \cap ValueHeaders :
            raw_df[i][c] \in DOMAIN ExpectedValue =>
                /\ norm.out[i][OutName(c)].kind = "num"
                /\ Val(norm.out[i][OutName(c)]) = ExpectedValue[raw_df[i][c]]

Renormalized == norm.op \in {"normalize_portfolio", "normalize_zacks"} /\ norm.pass = 2

\* C15: the normalizer applied to its own output returns the same table: the same
\* columns, the same tickers, the same numeric values with their signs.
C15_Idempotent == Renormalized => norm.out = norm.first

\* A second pass over a table the first pass changed, with a negative amount in it.
C15_Witness ==
    /\ Renormalized
    /\ norm.op = "normalize_portfolio"
    /\ norm.first # raw_df
    /\ \E i \in DOMAIN norm.first : \E c \in DOMAIN norm.first[i] :
        norm.first[i][c].kind = "num" /\ norm.first[i][c].neg

\* C16: after normalization every ticker is a non-empty string of the letters A-Z,
\* whatever the raw ticker cell was.
C16_TickerInvariant ==
    (FirstPass("normalize_portfolio") /\ "Ticker" \in Columns(norm.out)) =>
        \A i \in DOMAIN norm.out :
            /\ norm.out[i]["Ticker"].kind = "str"
            /\ norm.out[i]["Ticker"].chars # <<>>
            /\ \A k \in DOMAIN norm.out[i]["Ticker"].chars :
                IsUpperAZ(norm.out[i]["Ticker"].chars[k])

\* No raw header is a ticker or symbol header.
NoTickerHeader ==
    /\ raw_df # <<>>
    /\ \A c \in Columns(raw_df) : LowerName[StripName[c]] \notin {"ticker", "symbol"}

\* The first whitespace-delimited token of a text.
FirstToken(cs) ==
    LET body == LStrip(cs)
        blanks == {i \in DOMAIN body : body[i] = " "}
    IN  IF blanks = {} THEN body
        ELSE SubSeq(body, 1, (CHOOSE i \in blanks : \A j \in blanks : i <= j) - 1)

\* The ticker the degraded path gives row i.
DegradedTicker(i) ==
    IF "Description" \in Columns(raw_df) /\ raw_df[i]["Description"].kind = "str"
    THEN Str(FirstToken(raw_df[i]["Description"].chars))
    ELSE Str(<<"U", "N", "K">> \o DigitsOf(i))

\* C17: when no input column matches ticker/symbol, the output has every row of the
\* input, each with a Ticker: the first token of its Description, else UNK1, UNK2, ...
C17_TickerFallback ==
    ((FirstPass("normalize_portfolio") \/ FirstPass("normalize_zacks")) /\ NoTickerHeader) =>
        /\ Len(norm.out) = Len(raw_df)
        /\ \A i \in DOMAIN norm.out :
            /\ "Ticker" \in DOMAIN norm.out[i]
            /\ norm.out[i]["Ticker"] = DegradedTicker(i)

\* An optional sign, then digits with at most one point among them.
IsNumeral(cs) ==
    LET body == IF cs # <<>> /\ cs[1] \in {"-", "+"} THEN Tail(cs) ELSE cs
    IN  /\ \E i \in DOMAIN body : IsDigit(body[i])
        /\ \E p \in 0..Len(body) :
            \A i \in DOMAIN body : IF i = p THEN body[i] = "." ELSE IsDigit(body[i])

\* A cell no cleaner can read as a number: text that is not a numeral even with its
\* currency, grouping, percent and parenthesis characters taken away.
Unparseable(x) ==
    /\ x.kind = "str"
    /\ LET bare == RemoveChars(x.chars, {"$", ",", "%", "(", ")", "+", " "})
       IN  bare # <<>> /\ ~IsNumeral(bare)

\* The raw headers of the numeric columns the normalization parses, of those a value
\* is totalled from, and of those the weighted gain is computed from.
ParsedHeaders == ValueHeaders \cup {"Quantity"}

TotalHeaders == {"Current Value", "Last Price", "Quantity"}

GainHeaders == {"Current Value", "Total Gain/Loss Percent", "Cost Basis"}

\* The file without the rows that hold an unparseable cell under one of the headers.
Without(df, headers) ==
    SelectSeq(df, LAMBDA row : \A c \in DOMAIN row \cap headers : ~Unparseable(row[c]))

\* C18: a numeric cell that cannot be parsed becomes missing and its row stays; the
\* total value, the cash value and the weighted gain are what they are without it.
C18_UnparseableCell ==
    /\ FirstPass("normalize_portfolio") =>
        /\ Len(norm.out) = Len(raw_df)
        /\ \A i \in DOMAIN raw_df : \A c \in DOMAIN raw_df[i] \cap ParsedHeaders :
            Unparseable(raw_df[i][c]) => norm.out[i][OutName(c)] = Missing
        /\ norm.total = portfolio_total(normalize_portfolio(Without(raw_df, TotalHeaders)))
    /\ FirstPass("load_portfolio") =>
        /\ Len(norm.out) = Len(raw_df)
        /\ norm.metrics.total
             = compute_portfolio_metrics(
                   pe_load_portfolio(Without(raw_df, {"Current Value"}))).total
        /\ norm.metrics.cash
             = compute_portfolio_metrics(
                   pe_load_portfolio(Without(raw_df, {"Current Value"}))).cash
        /\ norm.weighted = metrics_weighted(pe_load_portfolio(Without(raw_df, GainHeaders)))

\* A cleaner has totalled a file of two rows, one of them with an unparseable amount
\* and the other with an amount that parses.
C18_Witness ==
    /\ norm.op \in {"normalize_portfolio", "load_portfolio"}
    /\ norm.pass = 1
    /\ Len(raw_df) = 2
    /\ Len(Without(raw_df, {"Current Value"})) = 1
    /\ IF norm.op = "load_portfolio" THEN norm.metrics.total.num > 0
       ELSE norm.total.num > 0

(***************************************************************************)
(* Delta Comparator: given today's CandidateSet and the prior one (which   *)
(* may be absent), the tickers added and the tickers removed.              *)
(***************************************************************************)
DeltaTickers == {"AAPL", "GOOG", "TSLA"}

\* The CandidateSets over DeltaTickers: each a function from its tickers to their rank.
CandidateSets == UNION {[T -> 1..MaxRank] : T \in SUBSET DeltaTickers}

Absent == [present |-> FALSE, set |-> <<>>]

Snapshot(c) == [present |-> TRUE, set |-> c]

\* The prior set does not count as history.
InsufficientHistoryNever(p) == FALSE

InsufficientHistory(p) == ~p.present \/ DOMAIN p.set = {}

\* The comparison made over (ticker, rank) entries instead of tickers.
delta_compare_entries(t, p) ==
    LET entries(c) == {<<x, c[x]>> : x \in DOMAIN c}
    IN  IF InsufficientHistory(p)
        THEN [op |-> "compare", added |-> {}, removed |-> {}, insufficient |-> TRUE]
        ELSE [op |-> "compare",
              added |-> {e[1] : e \in entries(t) \ entries(p.set)},
              removed |-> {e[1] : e \in entries(p.set) \ entries(t)},
              insufficient |-> FALSE]

\* The comparison with removed taken the same way round as added.
delta_compare_one_way(t, p) ==
    IF InsufficientHistory(p)
    THEN [op |-> "compare", added |-> {}, removed |-> {}, insufficient |-> TRUE]
    ELSE [op |-> "compare",
          added |-> DOMAIN t \ DOMAIN p.set,
          removed |-> DOMAIN t \ DOMAIN p.set,
          insufficient |-> FALSE]

\* (added, removed) with the insufficient-history flag.
delta_compare(t, p) ==
    IF InsufficientHistory(p)
    THEN [op |-> "compare", added |-> {}, removed |-> {}, insufficient |-> TRUE]
    ELSE [op |-> "compare",
          added |-> DOMAIN t \ DOMAIN p.set,
          removed |-> DOMAIN p.set \ DOMAIN t,
          insufficient |-> FALSE]

DeltaInit ==
    /\ today = <<>>
    /\ prior = Absent
    /\ delta = [op |-> "none"]

\* Today's screens are loaded.
LoadToday ==
    /\ \E c \in CandidateSets : today' = c
    /\ delta' = [op |-> "none"]
    /\ UNCHANGED <<prior, notDelta>>

\* A prior snapshot is found (possibly an empty one), or none is.
LoadPrior ==
    /\ \E p \in {Snapshot(c) : c \in CandidateSets} \cup {Absent} : prior' = p
    /\ delta' = [op |-> "none"]
    /\ UNCHANGED <<today, notDelta>>

CompareDelta ==
    /\ delta' = delta_compare(today, prior)
    /\ UNCHANGED <<today, prior, notDelta>>

\* The day turns: today's set is the next comparison's prior.
NextDay ==
    /\ delta.op = "compare"
    /\ prior' = Snapshot(today)
    /\ today' = <<>>
    /\ delta' = [op |-> "none"]
    /\ UNCHANGED notDelta

DeltaNext ==
    \/ LoadToday
    \/ LoadPrior
    \/ CompareDelta
    \/ NextDay

(***************************************************************************)
(* Delta Comparator claims.                                                *)
(***************************************************************************)
Compared == delta.op = "compare"

\* C11: with a non-empty prior set, added is today's tickers that are not in the prior
\* set, removed the prior set's tickers that are not in today's; the two are disjoint
\* and a ticker of both sets is in neither, whatever its ranks; prior {AAPL:1, GOOG:2}
\* and today {AAPL:1, TSLA:1} give added {TSLA} and removed {GOOG}.
C11_DeltaResult ==
    (Compared /\ prior.present /\ DOMAIN prior.set # {}) =>
        /\ delta.added = {t \in DeltaTickers : t \in DOMAIN today /\ t \notin DOMAIN prior.set}
        /\ delta.removed = {t \in DeltaTickers : t \in DOMAIN prior.set /\ t \notin DOMAIN today}
        /\ delta.added \cap delta.removed = {}
        /\ \A t \in DOMAIN today \cap DOMAIN prior.set :
            t \notin delta.added \cup delta.removed
        /\ (prior.set = ("AAPL" :> 1) @@ ("GOOG" :> 2)
                /\ today = ("AAPL" :> 1) @@ ("TSLA" :> 1)) =>
            delta.added = {"TSLA"} /\ delta.removed = {"GOOG"}

\* C11 witness: the documented comparison, and one where a kept ticker changed rank.
C11_Witness ==
    /\ Compared
    /\ prior = Snapshot(("AAPL" :> 1) @@ ("GOOG" :> 2))
    /\ today = ("AAPL" :> 2) @@ ("TSLA" :> 1)
    /\ delta.added = {"TSLA"}

\* The comparison the other way round: today's set as prior, the prior set as today.
Swapped == delta_compare(prior.set, Snapshot(today))

\* C12 as claimed: for any two CandidateSets, one of them empty included, the added
\* list of (prior, today) is the removed list of (today, prior).
C12_DeltaSymmetry == Compared => delta.added = Swapped.removed

\* C12 as it holds: the same, unless the prior set is absent or empty and today's is not.
C12_DeltaSymmetryWithHistory ==
    (Compared /\ (~InsufficientHistory(prior) \/ DOMAIN today = {})) =>
        delta.added = Swapped.removed

\* C12 witness: both sets non-empty and different, and the added list is not empty.
C12_Witness ==
    /\ Compared
    /\ ~InsufficientHistory(prior)
    /\ delta.added # {}
    /\ delta.removed # {}

\* C13: the comparison reports added = {} and removed = {} with the flag set when the
\* prior set is absent or empty, and sets the flag in that case only.
C13_NoHistory ==
    Compared =>
        /\ (~prior.present \/ DOMAIN prior.set = {}) =>
            /\ delta.added = {}
            /\ delta.removed = {}
            /\ delta.insufficient
        /\ delta.insufficient => (~prior.present \/ DOMAIN prior.set = {})

\* C13 witness: a first run, today's set not empty and no prior set.
C13_Witness ==
    /\ Compared
    /\ ~prior.present
    /\ DOMAIN today # {}
    /\ delta.insufficient

(***************************************************************************)
(* Renders: the whole run of fox_valley_dashboard_updated.py, of the base  *)
(* patch and of fox_valley_intelligence_engine.py over the input files     *)
(* that are, or are not, in data/.  An exception no handler catches ends   *)
(* the run where it is raised.                                             *)
(***************************************************************************)
ScreenKinds == <<"g1", "g2", "dd">>

NoFile == [kind |-> "absent"]

Unreadable == [kind |-> "unreadable"]

Table(rows) == [kind |-> "table", rows |-> rows]

\* The header layouts of a screen file: both columns, no ticker column, no rank column,
\* neither.
ScreenSchemes ==
    {[tcol |-> "Ticker", ncol |-> "Zacks Rank", rest |-> <<>>,
      tickers |-> {Str(<<"A">>), Str(<<"B">>)}, numbers |-> {Str(<<"1">>), Str(<<"2">>)}],
     [tcol |-> "Company", ncol |-> "Zacks Rank", rest |-> <<>>,
      tickers |-> {Str(<<"A", "a">>), Str(<<"A">>)}, numbers |-> {Str(<<"1">>)}],
     [tcol |-> "Ticker", ncol |-> "Score", rest |-> <<>>,
      tickers |-> {Str(<<"A">>), Str(<<"B">>)}, numbers |-> {Str(<<"1">>)}],
     [tcol |-> "Company", ncol |-> "Score", rest |-> <<>>,
      tickers |-> {Str(<<"A", "a">>)}, numbers |-> {Str(<<"1">>)}]}

\* What a screen file can be: not there, not a CSV, or a table with a row.
ScreenFiles ==
    {NoFile, Unreadable}
        \cup UNION {{Table(<<RawRow(h, t, n)>>) : t \in h.tickers, n \in h.numbers} :
                        h \in ScreenSchemes}

\* data/portfolio_data.csv of the dashboard: a holding and the cash line.
DashboardHoldings == <<PortfolioRow("A", 50000), PortfolioRow("SPAXX", 10000)>>

\* The portfolio file of the engine.
EngineHoldings ==
    <<("Ticker" :> "A") @@ ("Shares" :> 10) @@ ("Current Price" :> 125)
        @@ ("Cost Basis" :> 100)>>

\* The portfolio file of the base patch.
BasePatchFile ==
    <<("Symbol" :> Str(<<"A">>)) @@ ("Current Value" :> Str(<<"$", "1">>))>>

\* A text cell as one value.
Text(cs) ==
    CASE cs = <<"A">> -> "A"
      [] cs = <<"B">> -> "B"
      [] cs = <<"A", "a">> -> "Aa"
      [] cs = <<"A", "A">> -> "AA"
      [] OTHER -> "nan"

\* A rank cell as the value the comparisons with 1..5 see.
RankValue(x) ==
    IF x.kind = "num" /\ ~x.neg /\ x.mag.den = 1 THEN x.mag.num ELSE NaN

\* safe_read(path): the table, or an empty frame for no path and for any exception.
safe_read(f) == IF f.kind = "table" THEN f.rows ELSE <<>>

\* A normalized screen that has both columns, as the frame cross_match and
\* build_intel_overlay read.
zacks_frame(g) ==
    [i \in DOMAIN g |-> ScreenRow(Text(g[i]["Ticker"].chars), RankValue(g[i]["Zacks Rank"]))]

\* The run ends with an exception raised in `at`.
RaisedIn(at, error) == [status |-> "raised", at |-> at, error |-> error]

\* One screen tab: cross_match and the styled table when the screen is not empty, the
\* "No valid data" note when it is.
screen_tab(g, p) ==
    IF g = <<>> THEN [status |-> "completed", table |-> <<>>]
    ELSE IF "Ticker" \notin Columns(g) THEN RaisedIn("cross_match", "KeyError")
    ELSE IF "Zacks Rank" \notin Columns(g) THEN RaisedIn("st.dataframe", "KeyError")
    ELSE [status |-> "completed", table |-> cross_match(zacks_frame(g), p)]

\* fox_valley_dashboard_updated.py, top to bottom.
render_dashboard(p, s) ==
    LET g == [k \in Range(ScreenKinds) |-> normalize_zacks(safe_read(s[k]))]
        combined == g["g1"] \o g["g2"] \o g["dd"]
        columns == UNION {Columns(g[k]) : k \in Range(ScreenKinds)}
        tabs == [k \in Range(ScreenKinds) |-> screen_tab(g[k], DashboardHoldings)]
        failed == SelectSeq(ScreenKinds, LAMBDA k : tabs[k].status = "raised")
    IN  IF p = "absent" THEN RaisedIn("load_portfolio", "FileNotFoundError")
        ELSE IF p = "unreadable" THEN RaisedIn("load_portfolio", "ParserError")
        ELSE IF combined # <<>> /\ "Ticker" \notin columns
             THEN RaisedIn("build_intel_overlay", "KeyError")
        ELSE IF failed # <<>> THEN tabs[failed[1]]
        ELSE [status |-> "completed",
              shown |-> {"portfolio"} \cup {k \in Range(ScreenKinds) : g[k] # <<>>},
              tabs |-> [k \in Range(ScreenKinds) |-> tabs[k].table],
              intel |-> build_intel_overlay(DashboardHoldings, zacks_frame(g["g1"]),
                            zacks_frame(g["g2"]), zacks_frame(g["dd"]),
                            CashValue(DashboardHoldings), TotalValue(DashboardHoldings))]

\* The base patch, top to bottom: st.stop() when the portfolio file cannot be read; no
\* screen file is read.
render_base_patch(p) ==
    IF p # "ok" THEN [status |-> "stopped", at |-> "portfolio load", shown |-> {}]
    ELSE [status |-> "completed", shown |-> {"portfolio"},
          total |-> portfolio_total(normalize_portfolio(BasePatchFile))]

\* The rows pd.merge(left, right, on=key, how="inner") makes.
RECURSIVE InnerMerge(_, _, _)
InnerMerge(left, right, key) ==
    IF left = <<>> THEN <<>>
    ELSE LET hits == SelectSeq(right, LAMBDA r : r[key] = Last(left)[key])
         IN  InnerMerge(Front(left), right, key)
                \o [j \in DOMAIN hits |-> Last(left) @@ hits[j]]

\* A screen as the loop of crossmatch_with_zacks leaves it: Ticker upper-cased, Zacks
\* Rank numeric if the column is there.
engine_screen(z) ==
    LET rank == IF "Zacks Rank" \in Columns(z)
                THEN ToNumericCoerce(Column(z, "Zacks Rank")) ELSE <<>>
    IN  [i \in DOMAIN z |->
            ("Ticker" :> Text(Upper(z[i]["Ticker"].chars)))
                @@ (IF "Zacks Rank" \in Columns(z)
                    THEN ("Zacks Rank" :> RankValue(rank[i])) ELSE <<>>)]

\* The matches of one screen, with their Screen Category.
engine_matches(k, z) ==
    LET m == InnerMerge(EngineHoldings, engine_screen(z), "Ticker")
    IN  [i \in DOMAIN m |-> m[i] @@ ("Screen Category" :> k)]

\* pd.concat of the matches: a column some frames lack is NaN in their rows.
RECURSIVE ConcatMatches(_, _)
ConcatMatches(ks, s) ==
    IF ks = <<>> THEN <<>>
    ELSE ConcatMatches(Front(ks), s) \o engine_matches(Last(ks), s[Last(ks)].rows)

FillRank(df) ==
    [i \in DOMAIN df |->
        IF "Zacks Rank" \in DOMAIN df[i] THEN df[i] ELSE df[i] @@ ("Zacks Rank" :> NaN)]

\* main() of fox_valley_intelligence_engine.py.
run_engine(p, s) ==
    LET loaded == SelectSeq(ScreenKinds, LAMBDA k : s[k].kind = "table")
        keyless == SelectSeq(loaded, LAMBDA k : "Ticker" \notin Columns(s[k].rows))
        matches == ConcatMatches(loaded, s)
        summary == IF p = "ok" THEN {"portfolio"} ELSE {}
    IN  IF p = "unreadable" THEN RaisedIn("load_portfolio", "ParserError")
        ELSE IF \E k \in Range(ScreenKinds) : s[k].kind = "unreadable"
             THEN RaisedIn("load_zacks_files", "ParserError")
        ELSE IF p = "absent" \/ loaded = <<>>
             THEN [status |-> "completed", shown |-> summary, result |-> <<>>]
        ELSE IF keyless # <<>> THEN RaisedIn("crossmatch_with_zacks", "KeyError")
        ELSE IF matches = <<>>
             THEN [status |-> "completed", shown |-> summary \cup Range(loaded),
                   result |-> <<>>]
        ELSE IF \A i \in DOMAIN matches : "Zacks Rank" \notin DOMAIN matches[i]
             THEN RaisedIn("apply_tactical_rules", "KeyError")
        ELSE [status |-> "completed", shown |-> summary \cup Range(loaded),
              result |-> apply_tactical_rules(FillRank(matches))]

RenderInit ==
    /\ pfile = "absent"
    /\ screens = [k \in Range(ScreenKinds) |-> NoFile]
    /\ render = [app |-> "none"]

\* The portfolio file is put in data/, removed, or replaced by something unreadable.
SetPortfolioFile ==
    /\ \E p \in {"absent", "unreadable", "ok"} :
        /\ p # pfile
        /\ pfile' = p
    /\ render' = [app |-> "none"]
    /\ UNCHANGED <<screens, notRender>>

\* The same for one screen file.
SetScreenFile ==
    /\ \E k \in Range(ScreenKinds) : \E f \in ScreenFiles :
        /\ f # screens[k]
        /\ screens' = [screens EXCEPT ![k] = f]
    /\ render' = [app |-> "none"]
    /\ UNCHANGED <<pfile, notRender>>

RenderDashboard ==
    /\ render' = [app |-> "dashboard", out |-> render_dashboard(pfile, screens)]
    /\ UNCHANGED <<pfile, screens, notRender>>

RenderBasePatch ==
    /\ render' = [app |-> "base patch", out |-> render_base_patch(pfile)]
    /\ UNCHANGED <<pfile, screens, notRender>>

RunEngine ==
    /\ render' = [app |-> "engine", out |-> run_engine(pfile, screens)]
    /\ UNCHANGED <<pfile, screens, notRender>>

RenderNext ==
    \/ SetPortfolioFile
    \/ SetScreenFile
    \/ RenderDashboard
    \/ RenderBasePatch
    \/ RunEngine

(***************************************************************************)
(* Render claims.                                                          *)
(***************************************************************************)
Rendered == render.app # "none"

\* C19: whatever input files are missing or unreadable, a run ends normally, shows the
\* portfolio when its file is there, and shows no data for a screen whose file is not.
C19_RenderNeverAborts ==
    Rendered =>
        /\ render.out.status = "completed"
        /\ pfile = "ok" => "portfolio" \in render.out.shown
        /\ \A k \in Range(ScreenKinds) :
            screens[k].kind # "table" => k \notin render.out.shown

\* A screen file with rows and without a ticker/symbol header or without a rank header.
Mismatched(k) ==
    /\ screens[k].kind = "table"
    /\ LET headers == {LowerName[c] : c \in Columns(screens[k].rows)}
       IN  \/ headers \cap {"ticker", "symbol"} = {}
           \/ headers \cap {"zacks rank", "rank"} = {}

\* The rows the run reports for screen k.
Reported(k) ==
    IF render.app = "dashboard" THEN render.out.tabs[k]
    ELSE SelectSeq(render.out.result, LAMBDA r : r["Screen Category"] = k)

\* C20: with a screen file that has rows but no recognizable ticker column, or no
\* recognizable rank column, the run ends normally and reports nothing for that screen.
C20_SchemaMismatch ==
    (/\ render.app \in {"dashboard", "engine"}
     /\ pfile = "ok"
     /\ \A k \in Range(ScreenKinds) : screens[k].kind # "unreadable"
     /\ \E k \in Range(ScreenKinds) : Mismatched(k)) =>
        /\ render.out.status = "completed"
        /\ \A k \in Range(ScreenKinds) : Mismatched(k) => Reported(k) = <<>>

(***************************************************************************)
(* Renders over time: load_portfolio() of fox_valley_dashboard_updated.py  *)
(* is wrapped in st.cache_data, which keeps the value returned for a given *)
(* argument list (here the empty one) until the cache is cleared, for      *)
(* every session of the server.                                            *)
(***************************************************************************)
MaxDiskRows == 2

\* The rows the portfolio file can hold.
DiskRows ==
    {PortfolioRow("A", 100), PortfolioRow("A", 200), PortfolioRow("SPAXX", 50),
     PortfolioRow("A", NaN)}

PortfolioFiles == UNION {[1..n -> DiskRows] : n \in 1..MaxDiskRows}

NoMemo == [hit |-> FALSE]

Memo(df) == [hit |-> TRUE, df |-> df]

\* The body of load_portfolio(): the file's rows, Value numeric (NaN where it does not
\* parse), Ticker as text.
read_portfolio(file) ==
    [i \in DOMAIN file |-> PortfolioRow(file[i]["Ticker"], file[i]["Value"])]

\* load_portfolio() under st.cache_data: the memo when there is one, else the body.
cached_load_portfolio(memo, file) == IF memo.hit THEN memo.df ELSE read_portfolio(file)

CacheInit ==
    /\ disk = <<PortfolioRow("A", 100)>>
    /\ cached = NoMemo
    /\ view = [op |-> "none"]

\* The portfolio file is replaced by a new export.
ReplacePortfolioFile ==
    /\ \E f \in PortfolioFiles :
        /\ f # disk
        /\ disk' = f
    /\ view' = [op |-> "none"]
    /\ UNCHANGED <<cached, notCache>>

\* One run of the script, down to the totals.
RenderPortfolio ==
    /\ LET portfolio == cached_load_portfolio(cached, disk)
       IN  /\ cached' = Memo(portfolio)
           /\ view' = [op |-> "render", portfolio |-> portfolio,
                       total |-> TotalValue(portfolio), cash |-> CashValue(portfolio)]
    /\ UNCHANGED <<disk, notCache>>

\* The cache is cleared: the server restarts, or "Clear cache" is chosen.
ClearCache ==
    /\ cached.hit
    /\ cached' = NoMemo
    /\ UNCHANGED <<disk, view, notCache>>

CacheNext ==
    \/ ReplacePortfolioFile
    \/ RenderPortfolio
    \/ ClearCache

\* C21: the portfolio table and the totals a render shows are those of the input file
\* as it is on disk at that render, whatever was rendered before.
C21_RendersStateless ==
    view.op = "render" =>
        /\ view.portfolio = read_portfolio(disk)
        /\ view.total = TotalValue(read_portfolio(disk))
        /\ view.cash = CashValue(read_portfolio(disk))

(***************************************************************************)
(* load_zacks_files_auto(directory) of fox_valley_dashboard.py.            *)
(*                                                                         *)
(* Every file of the model starts with "zacks_custom_screen" and ends with *)
(* ".csv".  `date` is its YYYY-MM-DD token (1..MaxScreenDate, in calendar  *)
(* order); `slot` says where the token is: "prefix" right after            *)
(* "zacks_custom_screen_", "later" anywhere else in the name               *)
(* ("zacks_custom_screen 2025-11-03 Growth 1.csv"); `type` is the screen   *)
(* the name tells, in lower case; `archive` whether the name contains      *)
(* "archive"; `readable` whether read_csv succeeds on it; `copy` tells two *)
(* names apart that agree on the rest ("... Growth 1 (1).csv").            *)
(***************************************************************************)
MaxScreenDate == 2

MaxScreenFiles == 3

ScreenTypes == {"growth 1", "dividends", "value"}

ScreenFileNames ==
    [date : 1..MaxScreenDate, slot : {"prefix"}, type : ScreenTypes,
     archive : {FALSE}, readable : BOOLEAN, copy : 0..1]
        \cup [date : 1..MaxScreenDate, slot : {"prefix"}, type : ScreenTypes,
              archive : {TRUE}, readable : {TRUE}, copy : {0}]
        \cup [date : 1..MaxScreenDate, slot : {"later"}, type : ScreenTypes,
              archive : {FALSE}, readable : {TRUE}, copy : {0}]

\* The dict key of a file name, if it has one.
ScreenKey(f) ==
    CASE f.type = "growth 1" -> "Growth1"
      [] f.type = "growth 2" -> "Growth2"
      [] f.type \in {"defensive", "dividends"} -> "DefensiveDividend"
      [] OTHER -> "skip"

\* The loop over todays_files: a readable file takes its key, replacing an earlier one.
RECURSIVE ReadScreens(_)
ReadScreens(fs) ==
    IF fs = <<>> THEN <<>>
    ELSE LET out == ReadScreens(Front(fs))
             f == Last(fs)
         IN  IF ScreenKey(f) = "skip" \/ ~f.readable THEN out
             ELSE (ScreenKey(f) :> f) @@ out

\* The files of every date the pattern finds, read alike.
load_zacks_files_all_dates(listing) ==
    ReadScreens(SelectSeq(listing, LAMBDA f : ~f.archive /\ f.slot = "prefix"))

\* load_zacks_files_auto(directory), from the listing os.listdir returned.
load_zacks_files_auto(listing) ==
    LET fs == SelectSeq(listing, LAMBDA f : ~f.archive)
        dated == SelectSeq(fs, LAMBDA f : f.slot = "prefix")
        newest == CHOOSE d \in {f.date : f \in Range(dated)} :
                      \A f \in Range(dated) : f.date <= d
    IN  IF dated = <<>> THEN <<>>
        ELSE ReadScreens(SelectSeq(dated, LAMBDA f : f.date = newest))

SnapInit ==
    /\ zdir = {}
    /\ snap = [op |-> "none"]

\* A screen export is saved into the directory.
SaveScreenFile ==
    /\ Cardinality(zdir) < MaxScreenFiles
    /\ \E f \in ScreenFileNames \ zdir : zdir' = zdir \cup {f}
    /\ snap' = [op |-> "none"]
    /\ UNCHANGED notSnap

DeleteScreenFile ==
    /\ \E f \in zdir : zdir' = zdir \ {f}
    /\ snap' = [op |-> "none"]
    /\ UNCHANGED notSnap

LoadZacksFilesAuto ==
    /\ \E listing \in Listings(zdir) :
        snap' = [op |-> "load_zacks_files_auto", out |-> load_zacks_files_auto(listing)]
    /\ UNCHANGED <<zdir, notSnap>>

SnapNext ==
    \/ SaveScreenFile
    \/ DeleteScreenFile
    \/ LoadZacksFilesAuto

(***************************************************************************)
(* Snapshot claims.                                                        *)
(***************************************************************************)
Loaded == snap.op = "load_zacks_files_auto"

NewestOf(fs) == CHOOSE d \in {f.date : f \in fs} : \A f \in fs : f.date <= d

\* The dict holds files of the date d only, under the three keys, and no key whose
\* type has no file of the date d among fs.
SnapshotOf(d, fs) ==
    /\ DOMAIN snap.out \subseteq {"Growth1", "Growth2", "DefensiveDividend"}
    /\ \A k \in DOMAIN snap.out :
        /\ snap.out[k] \in fs
        /\ snap.out[k].date = d
        /\ ScreenKey(snap.out[k]) = k
    /\ \A k \in {"Growth1", "Growth2", "DefensiveDividend"} :
        (\A f \in fs : ScreenKey(f) = k => f.date # d) => k \notin DOMAIN snap.out

DatedScreens == {f \in zdir : ~f.archive /\ f.slot = "prefix"}

MaxHeldRows == 2

HeldRow(t, s, p) == ("Ticker" :> t) @@ ("Shares" :> s) @@ ("Current Price" :> p)

HeldRows == {HeldRow(t, 10, p) : t \in {<<"a">>, <<"A">>, <<"B">>}, p \in {2, 125}}

HeldPortfolios == UNION {[1..n -> HeldRows] : n \in 1..MaxHeldRows}

HeldScreens ==
    {<<ScreenRow(t, r)>> :
        t \in {<<"a">>, <<"A">>},
        r \in {Num(FALSE, Rat(1, 1), TRUE), Str(<<"1">>), Str(<<"N">>)}}

\* show_portfolio_summary(df): df["Value"] = df["Shares"] * df["Current Price"] is
\* assigned on the frame passed in.
show_portfolio_summary(df) ==
    [i \in DOMAIN df |->
        ("Value" :> df[i]["Shares"] * df[i]["Current Price"]) @@ df[i]]

\* crossmatch_with_zacks on the portfolio frame: the Ticker column is reassigned on it.
crossmatch_portfolio(df) ==
    [i \in DOMAIN df |-> ("Ticker" :> Upper(df[i]["Ticker"])) @@ df[i]]

\* crossmatch_with_zacks on a screen frame: Ticker and Zacks Rank are reassigned on it.
crossmatch_screen(z) ==
    LET rank == ToNumericCoerce(Column(z, "Zacks Rank"))
    IN  [i \in DOMAIN z |->
            ("Ticker" :> Upper(z[i]["Ticker"])) @@ ("Zacks Rank" :> rank[i])]

\* cross_match(zdf, pf) of the dashboard works on zdf.copy() and on pf[["Ticker"]]:
\* neither frame of the caller is assigned to.
cross_match_frames(z, p) == [pf |-> p, z |-> z]

FrameInit ==
    /\ held_pf = <<HeldRow(<<"A">>, 10, 125)>>
    /\ held_z = <<ScreenRow(<<"A">>, Num(FALSE, Rat(1, 1), TRUE))>>
    /\ passed = [op |-> "none"]

\* load_portfolio / load_zacks_files read the frames of a run.
LoadFrames ==
    /\ \E p \in HeldPortfolios, z \in HeldScreens :
        /\ <<p, z>> # <<held_pf, held_z>>
        /\ held_pf' = p
        /\ held_z' = z
    /\ passed' = [op |-> "none"]
    /\ UNCHANGED notFrame

\* main() of the engine: show_portfolio_summary(portfolio_df), then
\* crossmatch_with_zacks(portfolio_df, zacks_files), classification included.
EnginePipeline ==
    /\ passed' = [op |-> "engine", pf |-> held_pf, z |-> held_z]
    /\ held_pf' = crossmatch_portfolio(show_portfolio_summary(held_pf))
    /\ held_z' = crossmatch_screen(held_z)
    /\ UNCHANGED notFrame

\* A screen tab of the dashboard: cross_match(zdf, pf).
DashboardPipeline ==
    /\ passed' = [op |-> "dashboard", pf |-> held_pf, z |-> held_z]
    /\ held_pf' = cross_match_frames(held_z, held_pf).pf
    /\ held_z' = cross_match_frames(held_z, held_pf).z
    /\ UNCHANGED notFrame

FrameNext ==
    \/ LoadFrames
    \/ EnginePipeline
    \/ DashboardPipeline

(***************************************************************************)
(* Frame claims.                                                           *)
(***************************************************************************)
\* The frame has the rows, columns and cell values of `before`, with at most a Held
\* flag added.
SameButHeld(after, before) ==
    /\ Len(after) = Len(before)
    /\ \A i \in DOMAIN before :
        /\ DOMAIN before[i] \subseteq DOMAIN after[i]
        /\ DOMAIN after[i] \subseteq DOMAIN before[i] \cup {"Held?"}
        /\ \A c \in DOMAIN before[i] : after[i][c] = before[i][c]

\* C22: after cross-matching and classification the portfolio table passed in has the
\* rows, columns and cell values it had before the call, a Held flag being the only
\* permitted addition, and the screen tables passed in are unchanged.
C22_HoldingsNotMutated ==
    passed.op # "none" =>
        /\ SameButHeld(held_pf, passed.pf)
        /\ held_z = passed.z

(***************************************************************************)
(* The tactical summary file: the last lines of the dashboard script write *)
(* data/tactical_summary_<date>.md when the script runs in the ten minutes *)
(* from 06:45.  The script runs when a browser session triggers a rerun.   *)
(***************************************************************************)
MaxDay == 3

Days == 1..MaxDay

\* The times of day that matter, in order: [hour, minute].
TimesOfDay ==
    <<[hour |-> 0, minute |-> 0], [hour |-> 6, minute |-> 44],
      [hour |-> 6, minute |-> 45], [hour |-> 6, minute |-> 54],
      [hour |-> 6, minute |-> 55], [hour |-> 23, minute |-> 59]>>

Now == TimesOfDay[clock.slot]

\* now.hour == 6 and 45 <= now.minute < 55
InWindow(now) == now.hour = 6 /\ 45 <= now.minute /\ now.minute < 55

\* open(fname, "w") and the writes: the file of the date is created or replaced.
generate_tactical_summary(dir, date, now) ==
    [d \in DOMAIN dir \cup {date} |-> IF d = date THEN now ELSE dir[d]]

SummaryInit ==
    /\ clock = [day |-> 1, slot |-> 1]
    /\ summaries = <<>>

\* Time passes, day after day; the days after MaxDay are told apart no further.
Tick ==
    /\ clock' = IF clock.slot < Len(TimesOfDay)
                THEN [clock EXCEPT !.slot = @ + 1]
                ELSE [day |-> IF clock.day <= MaxDay THEN clock.day + 1 ELSE clock.day,
                      slot |-> 1]
    /\ UNCHANGED <<summaries, notSummary>>

\* A run of the script reaches its last lines; the write succeeds or raises and is
\* reported with st.error.
RenderSummary ==
    /\ \E writable \in BOOLEAN :
        summaries' = IF InWindow(Now) /\ writable
                     THEN generate_tactical_summary(summaries, clock.day, Now)
                     ELSE summaries
    /\ UNCHANGED <<clock, notSummary>>

SummaryNext ==
    \/ Tick
    \/ RenderSummary

(***************************************************************************)
(* Summary claims.                                                         *)
(***************************************************************************)
\* A summary file is written only inside the window of its own date.
SummaryOnlyInWindow ==
    \A d \in DOMAIN summaries :
        /\ InWindow(summaries[d])
        /\ d <= clock.day

\* C24: the summary of a day is generated at 06:45 of that day: for every day the file
\* of that date is eventually written, and only by a run inside the window.
C24_DailySummary ==
    /\ \A d \in Days : <>(d \in DOMAIN summaries)
    /\ []SummaryOnlyInWindow

(***************************************************************************)
(* compute_portfolio_metrics of the monolithic dashboard, beside the one   *)
(* of modules/portfolio_engine.py.                                         *)
(***************************************************************************)
MaxMetricsRows == 2

\* The column layouts of a portfolio table and the cells of each column.
MetricsSchemes ==
    {[c \in {"Ticker", "Current Value", "Gain/Loss %", "%Chg"} |->
        CASE c = "Ticker" -> {Str(<<"A">>), Str(<<"C", "a", "s", "h">>)}
          [] c = "Current Value" -> {Str(<<"1", "0", "0">>), Str(<<"-", "5", "0">>),
                                     Str(<<"n", "/", "a">>)}
          [] c = "Gain/Loss %" -> {Str(<<"1", "0">>), Str(<<"x">>)}
          [] c = "%Chg" -> {Str(<<"-", "5">>)}],
     [c \in {"Ticker", "Current Value", "Cost Basis"} |->
        CASE c = "Ticker" -> {Str(<<"A">>), Str(<<"c", "a", "s", "h">>)}
          [] c = "Current Value" -> {Str(<<"1", "0", "0">>), Missing}
          [] c = "Cost Basis" -> {Str(<<"5", "0">>), Str(<<"0">>)}],
     [c \in {"Ticker", "Total Gain/Loss Percent"} |->
        CASE c = "Ticker" -> {Str(<<"A">>), Str(<<"c", "a", "s", "h">>)}
          [] c = "Total Gain/Loss Percent" -> {Str(<<"1", "0">>)}],
     [c \in {"Current Value", "GainLossPct"} |->
        CASE c = "Current Value" -> {Str(<<"1", "0", "0">>), Str(<<"0">>)}
          [] c = "GainLossPct" -> {Str(<<"1", "0">>), Str(<<"-", "5">>), Missing}]}

MetricsRows(h) == {r \in [DOMAIN h -> UNION Range(h)] : \A c \in DOMAIN h : r[c] \in h[c]}

\* numeric_gain of the dashboard with the last candidate found instead of the first.
dashboard_gain_last(df) ==
    LET found == SelectSeq(GainCandidates, LAMBDA c : c \in Columns(df))
    IN  FillNa0(ToNumericCoerce(Column(df, found[Len(found)])))

\* numeric_gain of the dashboard: the first candidate column found, coerced and filled.
dashboard_gain(df) ==
    LET found == SelectSeq(GainCandidates, LAMBDA c : c \in Columns(df))
    IN  FillNa0(ToNumericCoerce(Column(df, found[1])))

\* compute_portfolio_metrics(df) of fox_valley_dashboard.py; None and the empty table
\* take the same first return.
dashboard_compute_portfolio_metrics(df) ==
    IF df = <<>> THEN [total |-> Zero, cash |-> Zero, avg |-> NoAverage]
    ELSE LET has == "Current Value" \in Columns(df)
             current_value_series == metrics_cv(df)
             total == SumCells(current_value_series)
             detected == \E i \in DOMAIN GainCandidates : GainCandidates[i] \in Columns(df)
             cash_rows == IF "Ticker" \in Columns(df)
                          THEN SelectSeq(df, LAMBDA r :
                                   Lower(AsStr(r["Ticker"])) = <<"c", "a", "s", "h">>)
                          ELSE <<>>
         IN  IF cash_rows # <<>> /\ ~has
             THEN [total |-> Zero, cash |-> Zero, avg |-> NoAverage]
             ELSE [total |-> total,
                   cash |-> SumCells(metrics_cv(cash_rows)),
                   avg |-> IF detected /\ total.num > 0
                           THEN Average(RatDiv(
                                    SumCells(MulColumns(dashboard_gain(df),
                                                        current_value_series)),
                                    total))
                           ELSE NoAverage]

NotCalled == [called |-> FALSE]

Returned(r) == [called |-> TRUE, ret |-> r]

MetricsInit ==
    /\ mdf = <<>>
    /\ mres = [dashboard |-> NotCalled, module |-> NotCalled]

\* The loader returns one more row of the portfolio.
AddMetricsRow ==
    /\ Len(mdf) < MaxMetricsRows
    /\ \E h \in MetricsSchemes : \E r \in MetricsRows(h) :
        /\ mdf # <<>> => DOMAIN r = DOMAIN mdf[1]
        /\ mdf' = Append(mdf, r)
    /\ mres' = [dashboard |-> NotCalled, module |-> NotCalled]
    /\ UNCHANGED notMetrics

DashboardMetrics ==
    /\ mres' = [mres EXCEPT !.dashboard = Returned(dashboard_compute_portfolio_metrics(mdf))]
    /\ UNCHANGED <<mdf, notMetrics>>

ModuleMetrics ==
    /\ mres' = [mres EXCEPT !.module = Returned(compute_portfolio_metrics(mdf))]
    /\ UNCHANGED <<mdf, notMetrics>>

\* The next portfolio.
NewPortfolio ==
    /\ mres.dashboard.called \/ mres.module.called
    /\ mdf' = <<>>
    /\ mres' = [dashboard |-> NotCalled, module |-> NotCalled]
    /\ UNCHANGED notMetrics

MetricsNext ==
    \/ AddMetricsRow
    \/ DashboardMetrics
    \/ ModuleMetrics
    \/ NewPortfolio

(***************************************************************************)
(* Metrics claims.                                                         *)
(***************************************************************************)
BothCalled == mres.dashboard.called /\ mres.module.called

HasGainColumn(df) == \E i \in DOMAIN GainCandidates : GainCandidates[i] \in Columns(df)

NoMetrics == [total |-> Zero, cash |-> Zero, avg |-> NoAverage]

\* C25: for every portfolio table the two functions return the same total value and the
\* same cash value, and the same average gain when the table has a recognized gain
\* column; both return (0.0, 0.0, None) for an empty table, and an average gain of None
\* whenever the total value is not positive.
C25_MetricsAgree ==
    BothCalled =>
        LET d == mres.dashboard.ret
            m == mres.module.ret
        IN  /\ d.total = m.total
            /\ d.cash = m.cash
            /\ HasGainColumn(mdf) => d.avg = m.avg
            /\ mdf = <<>> => d = NoMetrics /\ m = NoMetrics
            /\ d.total.num <= 0 => d.avg = NoAverage
            /\ m.total.num <= 0 => m.avg = NoAverage

\* Both were called on a table with two gain columns and a positive total, and on it
\* they return an average.
C25_Witness ==
    /\ BothCalled
    /\ {"Gain/Loss %", "%Chg"} \subseteq Columns(mdf)
    /\ mres.dashboard.ret.avg.kind = "avg"
    /\ mres.dashboard.ret.avg.val.num # 0
    /\ mres.dashboard.ret.cash.num > 0

(***************************************************************************)
(* Composite scoring of the merged screens: score_zacks_candidates and     *)
(* get_top_n of the monolithic dashboard.                                  *)
(***************************************************************************)
MaxCandidates == 3

MaxTopN == 4

IntCell(n) == Num(FALSE, Rat(n, 1), TRUE)

\* The rank cells of a merged screen: integers, a float (the column has blanks), blank.
ScoreRankCells == {IntCell(1), Num(FALSE, Rat(3, 1), FALSE), IntCell(5), Missing}

\* Price Change % and Market Cap of a row.
ScoreFactors ==
    {<<IntCell(0), IntCell(0)>>, <<IntCell(10), IntCell(0)>>, <<Missing, IntCell(500000)>>}

CandidateRows ==
    {("Source" :> s) @@ ("Zacks Rank" :> r) @@ ("Price Change %" :> f[1])
        @@ ("Market Cap" :> f[2]) :
        s \in {"Growth1", "Growth2"}, r \in ScoreRankCells, f \in ScoreFactors}
        \cup {("Source" :> s) : s \in {"Growth2", "DefensiveDividend"}}

NoScore == [nan |-> TRUE]

Score(r) == [nan |-> FALSE, val |-> r]

\* astype(str).str.extract(r"(\d)").astype(float): the first digit of the cell's text.
RankScore(x) ==
    LET digits == SelectSeq(AsStr(x), IsDigit)
    IN  IF digits = <<>> THEN NoScore ELSE Score(Rat(DigitsValue(<<digits[1]>>), 1))

\* pd.to_numeric(cell, errors="coerce") filled with 0.0
FilledValue(x) ==
    LET p == ParseCell(x) IN IF p.kind = "num" THEN Val(p) ELSE Zero

source_weight(src) ==
    CASE src = "Growth1" -> Rat(115, 100)
      [] src = "Growth2" -> Rat(110, 100)
      [] src = "DefensiveDividend" -> Rat(105, 100)
      [] OTHER -> Rat(1, 1)

\* The composite without its rank term.
CompositeUnranked(rank, momentum, size, weight) ==
    IF rank.nan THEN NoScore
    ELSE Score(RatMul(RatAdd(RatMul(momentum, Rat(1, 5)), RatMul(size, Rat(1, 100000))),
                      weight))

\* ((6 - RankScore) * 5 + Momentum * 0.2 + SizeScore * 0.00001) * SourceWeight; NaN when
\* RankScore is.
Composite(rank, momentum, size, weight) ==
    IF rank.nan THEN NoScore
    ELSE Score(RatMul(RatAdd(RatAdd(RatMul(RatSub(Rat(6, 1), rank.val), Rat(5, 1)),
                                    RatMul(momentum, Rat(1, 5))),
                             RatMul(size, Rat(1, 100000))),
                      weight))

\* One row with the columns the function adds.
ScoredRow(r) ==
    LET rank == IF "Zacks Rank" \in DOMAIN r THEN RankScore(r["Zacks Rank"])
                ELSE Score(Rat(5, 1))
        momentum == IF "Price Change %" \in DOMAIN r THEN FilledValue(r["Price Change %"])
                    ELSE Zero
        size == IF "Market Cap" \in DOMAIN r THEN FilledValue(r["Market Cap"]) ELSE Zero
        weight == source_weight(r["Source"])
    IN  ("RankScore" :> rank) @@ ("Momentum" :> momentum) @@ ("SizeScore" :> size)
            @@ ("SourceWeight" :> weight)
            @@ ("CompositeScore" :> Composite(rank, momentum, size, weight)) @@ r

\* a > b of two scores; a comparison with NaN is false.
ScoreGreater(a, b) == ~a.nan /\ ~b.nan /\ ~RatLeq(a.val, b.val)

\* The orders sort_values("CompositeScore", ascending=False) can leave the rows in:
\* descending, NaN last; the order of equal scores is the sort algorithm's.
SortedOrders(df) ==
    {p \in [DOMAIN df -> DOMAIN df] :
        /\ \A i, j \in DOMAIN df : i # j => p[i] # p[j]
        /\ \A i, j \in DOMAIN df :
            i < j => /\ ~ScoreGreater(df[p[j]]["CompositeScore"], df[p[i]]["CompositeScore"])
                     /\ df[p[i]]["CompositeScore"].nan => df[p[j]]["CompositeScore"].nan}

\* score_zacks_candidates(df), in the order p.
score_zacks_candidates(df, p) ==
    LET rows == [i \in DOMAIN df |-> ScoredRow(df[i])]
    IN  [i \in DOMAIN df |-> rows[p[i]]]

\* get_top_n(df, n): df.head(n); an empty frame for an empty one.
get_top_n(df, n) == IF df = <<>> THEN <<>> ELSE SubSeq(df, 1, IF n < Len(df) THEN n ELSE Len(df))

ScoreInit ==
    /\ unified = <<>>
    /\ top = [op |-> "none"]

\* merge_zacks_screens concatenates one more row.
AddCandidate ==
    /\ Len(unified) < MaxCandidates
    /\ \E r \in CandidateRows :
        /\ unified # <<>> => DOMAIN r = DOMAIN unified[1]
        /\ unified' = Append(unified, r)
    /\ top' = [op |-> "none"]
    /\ UNCHANGED notScore

ScoreCandidates ==
    /\ \E p \in SortedOrders([i \in DOMAIN unified |-> ScoredRow(unified[i])]) :
        top' = [op |-> "scored", scored |-> score_zacks_candidates(unified, p)]
    /\ UNCHANGED <<unified, notScore>>

\* The Top-N input of the sidebar runs from 1.
GetTopN ==
    /\ top.op = "scored"
    /\ \E n \in 1..MaxTopN :
        top' = [op |-> "top", scored |-> top.scored, n |-> n,
                out |-> get_top_n(top.scored, n)]
    /\ UNCHANGED <<unified, notScore>>

\* The next set of screens.
NewScreens ==
    /\ top.op # "none"
    /\ unified' = <<>>
    /\ top' = [op |-> "none"]
    /\ UNCHANGED notScore

ScoreNext ==
    \/ AddCandidate
    \/ ScoreCandidates
    \/ GetTopN
    \/ NewScreens

(***************************************************************************)
(* Scoring claims.                                                         *)
(***************************************************************************)
\* Row a has the better (smaller) Zacks Rank of two rows that have one and share source,
\* momentum and market cap.
BetterRanked(a, b) ==
    /\ "Zacks Rank" \in DOMAIN a /\ "Zacks Rank" \in DOMAIN b
    /\ a["Zacks Rank"].kind = "num" /\ b["Zacks Rank"].kind = "num"
    /\ a["Source"] = b["Source"]
    /\ a["Momentum"] = b["Momentum"]
    /\ a["SizeScore"] = b["SizeScore"]
    /\ ~RatLeq(Val(b["Zacks Rank"]), Val(a["Zacks Rank"]))

\* C26: the scored rows come in non-increasing CompositeScore order; of two candidates
\* of one source with equal momentum and market cap the one with the smaller Zacks Rank
\* has the strictly larger CompositeScore; get_top_n returns min(n, rows) rows and never
\* includes a candidate while omitting a better ranked one of the same source, momentum
\* and size.
C26_ScoreOrdersByRank ==
    top.op # "none" =>
        LET s == top.scored
        IN  /\ Len(s) = Len(unified)
            /\ \A i, j \in DOMAIN s :
                i < j => ~ScoreGreater(s[j]["CompositeScore"], s[i]["CompositeScore"])
            /\ \A i, j \in DOMAIN s :
                BetterRanked(s[i], s[j])
                    => ScoreGreater(s[i]["CompositeScore"], s[j]["CompositeScore"])
            /\ top.op = "top" =>
                /\ Len(top.out) = (IF top.n < Len(s) THEN top.n ELSE Len(s))
                /\ \A i \in DOMAIN top.out : top.out[i] = s[i]
                /\ \A i, j \in DOMAIN s :
                    i <= Len(top.out) /\ j > Len(top.out) => ~BetterRanked(s[j], s[i])

\* The top 1 or 2 of three scored candidates, the first of which is better ranked than an
\* omitted one of its source, momentum and size.
C26_Witness ==
    /\ top.op = "top"
    /\ Len(top.scored) = 3
    /\ top.n < 3
    /\ BetterRanked(top.scored[1], top.scored[3])

(***************************************************************************)
(* modules/tactical_engine.py: the tactical score, rank persistence and    *)
(* the trust multiplier.                                                   *)
(***************************************************************************)
FloatOf(n, d) == FloatCell(Rat(n, d))

\* The cells of a candidate row; a column may also be absent.
TacticalCells ==
    [c \in {"CompositeScore", "PriceChange5d", "Volatility30d", "Zacks Rank",
            "PersistenceDays"} |->
        CASE c = "CompositeScore" ->
                {FloatOf(0 - 10, 1), FloatOf(0, 1), FloatOf(33333, 1000), FloatOf(45, 1),
                 FloatOf(200, 1), Missing}
          [] c = "PriceChange5d" -> {FloatOf(0 - 5, 1), FloatOf(2, 1), FloatOf(30, 1)}
          [] c = "Volatility30d" -> {FloatOf(0 - 4, 1), FloatOf(10, 1), FloatOf(50, 1)}
          [] c = "Zacks Rank" -> {Str(<<"1">>), Str(<<"3">>)}
          [] c = "PersistenceDays" ->
                {IntCell(3), IntCell(7), IntCell(12), IntCell(0 - 2), FloatOf(79, 10),
                 FloatOf(125, 10), Str(<<"x">>), Str(<<"1", "2">>), Missing}]

TacticalRows ==
    UNION {{r \in [cols -> UNION Range(TacticalCells)] :
                \A c \in cols : r[c] \in TacticalCells[c]} :
           cols \in {DOMAIN TacticalCells,
                     {"CompositeScore", "Zacks Rank"},
                     {"CompositeScore", "PersistenceDays"}}}

\* A float: a rational, or NaN.
NotANumber == [nan |-> TRUE]

Float(r) == [nan |-> FALSE, val |-> r]

\* row.get(c, default) of a numeric cell.
GetFloat(row, c, default) ==
    IF c \notin DOMAIN row THEN Float(Rat(default, 1))
    ELSE IF row[c].kind = "num" THEN Float(Val(row[c])) ELSE NotANumber

\* min(a, b) and max(a, b) of Python: the first argument unless the second compares
\* smaller (larger); a comparison with NaN is false.
PyMin(a, b) == IF ~a.nan /\ ~b.nan /\ ~RatLeq(a.val, b.val) THEN b ELSE a

PyMax(a, b) == IF ~a.nan /\ ~b.nan /\ ~RatLeq(b.val, a.val) THEN b ELSE a

FloatAdd(a, b) == IF a.nan \/ b.nan THEN NotANumber ELSE Float(RatAdd(a.val, b.val))

FloatMul(a, r) == IF a.nan THEN NotANumber ELSE Float(RatMul(a.val, r))

compute_tactical_score(row) ==
    LET s1 == PyMin(GetFloat(row, "CompositeScore", 0), Float(Rat(50, 1)))
        s2 == FloatAdd(s1, PyMin(GetFloat(row, "PriceChange5d", 0), Float(Rat(20, 1))))
        s3 == IF "Zacks Rank" \in DOMAIN row /\ Strip(AsStr(row["Zacks Rank"])) = <<"1">>
              THEN FloatAdd(s2, Float(Rat(15, 1))) ELSE s2
        volatility == GetFloat(row, "Volatility30d", 20)
        s4 == FloatAdd(s3, FloatMul(PyMin(volatility, Float(Rat(20, 1))), Rat(0 - 1, 2)))
    IN  PyMax(Float(Zero), PyMin(s4, Float(Rat(100, 1))))

\* int(s) of a string: an integer literal, else ValueError.
IsIntLiteral(cs) ==
    LET body == IF cs # <<>> /\ cs[1] \in {"-", "+"} THEN Tail(cs) ELSE cs
    IN  body # <<>> /\ \A i \in DOMAIN body : IsDigit(body[i])

\* compute_persistence(row): int(days), 0 when int() raises.
compute_persistence(row) ==
    IF "PersistenceDays" \notin DOMAIN row THEN 0
    ELSE LET days == row["PersistenceDays"]
         IN  CASE days.kind = "num" ->
                    (IF days.neg THEN 0 - 1 ELSE 1) * (days.mag.num \div days.mag.den)
               [] days.kind = "str" /\ IsIntLiteral(Strip(days.chars)) ->
                    (IF Strip(days.chars)[1] = "-" THEN 0 - 1 ELSE 1)
                        * DigitsValue(SelectSeq(days.chars, IsDigit))
               [] OTHER -> 0

trust_factor(days, score) ==
    IF days >= 10 THEN PyMin(FloatMul(score, Rat(12, 10)), Float(Rat(100, 1)))
    ELSE IF days >= 5 THEN PyMin(FloatMul(score, Rat(11, 10)), Float(Rat(100, 1)))
    ELSE score

\* round(x, 2) of a float that is not negative: the nearest hundredth, a tie to even.
Round2(x) ==
    LET n == x.val.num * 100
        q == n \div x.val.den
        twice == 2 * (n % x.val.den)
        up == twice > x.val.den \/ (twice = x.val.den /\ q % 2 = 1)
    IN  Float(Rat(IF up THEN q + 1 ELSE q, 100))

compute_final_tactical_score(row) ==
    Round2(trust_factor(compute_persistence(row), compute_tactical_score(row)))

\* apply_tactical_analysis(df), one row of it: PersistenceDays is replaced first, and
\* the scores are computed from the row that has it.
apply_tactical_analysis(row) ==
    LET counted == ("PersistenceDays" :> IntCell(compute_persistence(row))) @@ row
    IN  ("TacticalScore" :> compute_tactical_score(counted))
            @@ ("FinalTacticalScore" :> compute_final_tactical_score(counted))
            @@ ("Days" :> compute_persistence(counted)) @@ counted

TacticalInit ==
    /\ trow = [c \in {"CompositeScore", "Zacks Rank"} |->
                IF c = "CompositeScore" THEN FloatOf(45, 1) ELSE Str(<<"1">>)]
    /\ tactical = [op |-> "none"]

\* The next candidate row.
NextCandidate ==
    /\ \E r \in TacticalRows :
        /\ r # trow
        /\ trow' = r
    /\ tactical' = [op |-> "none"]
    /\ UNCHANGED notTactical

ApplyTacticalAnalysis ==
    /\ tactical' = [op |-> "apply_tactical_analysis", out |-> apply_tactical_analysis(trow)]
    /\ UNCHANGED <<trow, notTactical>>

TacticalNext ==
    \/ NextCandidate
    \/ ApplyTacticalAnalysis

(***************************************************************************)
(* Tactical score claims.                                                  *)
(***************************************************************************)
Analysed == tactical.op = "apply_tactical_analysis"

\* PersistenceDays of the row is an integer: an int, a float or a string that writes one.
IntegerDays(row) ==
    /\ "PersistenceDays" \in DOMAIN row
    /\ LET days == row["PersistenceDays"]
       IN  \/ days.kind = "num" /\ days.mag.den = 1
           \/ days.kind = "str" /\ IsIntLiteral(Strip(days.chars))

\* Both scores of every analysed row lie in 0..100.
ScoresWithin0And100 ==
    Analysed =>
        LET t == tactical.out["TacticalScore"]
            f == tactical.out["FinalTacticalScore"]
        IN  /\ ~t.nan /\ ~f.nan
            /\ RatLeq(Zero, t.val) /\ RatLeq(t.val, Rat(100, 1))
            /\ RatLeq(Zero, f.val) /\ RatLeq(f.val, Rat(100, 1))

\* C28: for every row, whatever its values, 0 <= TacticalScore <= FinalTacticalScore
\* <= 100, and a PersistenceDays that is not an integer counts as 0 days.
C28_ScoresInRange ==
    Analysed =>
        LET t == tactical.out["TacticalScore"]
            f == tactical.out["FinalTacticalScore"]
        IN  /\ ~t.nan /\ ~f.nan
            /\ RatLeq(Zero, t.val)
            /\ RatLeq(t.val, f.val)
            /\ RatLeq(f.val, Rat(100, 1))
            /\ ~IntegerDays(trow) => tactical.out["Days"] = 0

(***************************************************************************)
(* The gain/loss derivations and the cost basis they divide by:            *)
(* calculate_unrealized_gain, compute_synthetic_gain and the GainLoss%     *)
(* column of the base patch.                                               *)
(***************************************************************************)
\* The cost basis of a holding: zero, negative, missing (NaN), positive.
CostBases == {0, 0 - 50, NaN, 50, 100}

CostedHoldings == [cost : CostBases, price : {0, 100, 125}, shares : {1, 2}]

NumberCell(v) == IF v = NaN THEN Missing ELSE FloatCell(Rat(v, 1))

Infinite == [kind |-> "inf"]

Finite(r) == [kind |-> "num", val |-> r]

\* The row of the crossmatched table calculate_unrealized_gain reads.
UnrealizedRow(h) == ("Cost Basis" :> h.cost) @@ ("Current Price" :> h.price)

unrealized_gain(h) ==
    LET g == calculate_unrealized_gain(UnrealizedRow(h))
    IN  IF g = None THEN None ELSE Finite(Rat(g.num, g.den))

\* The one-row table compute_synthetic_gain reads, and the cell it returns.
SyntheticTable(h) ==
    <<("Current Value" :> NumberCell(h.price * h.shares))
        @@ ("Cost Basis" :> NumberCell(h.cost))>>

synthetic_gain(h) ==
    LET g == compute_synthetic_gain(SyntheticTable(h))[1]
    IN  IF g.kind = "num" THEN Finite(Val(g)) ELSE Missing

\* portfolio["GainLoss%"] = ((portfolio["MarketPrice"] / portfolio["CostBasis"]) - 1) * 100
\* of the base patch: float division, x / 0 is inf (nan for 0 / 0), NaN stays NaN.
base_patch_gain_loss_pct(h) ==
    IF h.cost = NaN THEN Missing
    ELSE IF h.cost = 0 THEN (IF h.price = 0 THEN Missing ELSE Infinite)
    ELSE Finite(RatMul(RatSub(RatDiv(Rat(h.price, 1), Rat(h.cost, 1)), Rat(1, 1)),
                       Rat(100, 1)))

GainInit ==
    /\ holding = [cost |-> 100, price |-> 125, shares |-> 1]
    /\ gainPct = [op |-> "none"]

\* The next holding of the file.
NextHolding ==
    /\ \E h \in CostedHoldings :
        /\ h # holding
        /\ holding' = h
    /\ gainPct' = [op |-> "none"]
    /\ UNCHANGED notGain

CalculateUnrealizedGain ==
    /\ gainPct' = [op |-> "calculate_unrealized_gain", val |-> unrealized_gain(holding),
                kept |-> TRUE]
    /\ UNCHANGED <<holding, notGain>>

ComputeSyntheticGain ==
    /\ gainPct' = [op |-> "compute_synthetic_gain", val |-> synthetic_gain(holding),
                kept |-> TRUE]
    /\ UNCHANGED <<holding, notGain>>

BasePatchGainLoss ==
    /\ gainPct' = [op |-> "GainLoss%", val |-> base_patch_gain_loss_pct(holding),
                kept |-> TRUE]
    /\ UNCHANGED <<holding, notGain>>

GainNext ==
    \/ NextHolding
    \/ CalculateUnrealizedGain
    \/ ComputeSyntheticGain
    \/ BasePatchGainLoss

(***************************************************************************)
(* Gain claims.                                                            *)
(***************************************************************************)
MissingOrZero(g) == g = None \/ g = Missing \/ (g.kind = "num" /\ g.val = Zero)

\* C29: for a holding whose cost basis is 0, negative or missing, every gain/loss
\* derivation yields missing or 0, never an infinite value, and the row is kept.
C29_NoDivisionByZeroCost ==
    (gainPct.op # "none" /\ (holding.cost = NaN \/ holding.cost <= 0)) =>
        /\ MissingOrZero(gainPct.val)
        /\ gainPct.val # Infinite
        /\ gainPct.kept

\* The same for the unrealized gain alone, which tests Cost Basis > 0.
UnrealizedGainGuarded ==
    (gainPct.op = "calculate_unrealized_gain" /\ (holding.cost = NaN \/ holding.cost <= 0))
        => gainPct.val = None

(***************************************************************************)
(* Portfolio weights: the weight heat map of the monolithic dashboard and  *)
(* generate_weight_heatmap of modules/diagnostics_engine.py.               *)
(***************************************************************************)
MaxWeightRows == 3

\* Current Value cells after read_csv: zero, positive, negative, blank.
WeightRows ==
    {("Ticker" :> "A") @@ ("Current Value" :> v) : v \in {0, 50, 0 - 50, NaN}}
        \cup {("Ticker" :> "A") @@ ("Shares" :> 1)}

NegInfinite == [kind |-> "-inf"]

\* pd.to_numeric(df["Current Value"], errors="coerce").fillna(0)
filled_current_value(df) ==
    [i \in DOMAIN df |-> IF df[i]["Current Value"] = NaN THEN 0 ELSE df[i]["Current Value"]]

RECURSIVE SumInts(_)
SumInts(s) == IF s = <<>> THEN 0 ELSE SumInts(Front(s)) + Last(s)

\* v / total * 100 of floats: inf, -inf or NaN when total is 0.
weight_pct(v, total) ==
    IF total # 0 THEN Finite(RatMul(RatDiv(Rat(v, 1), Rat(total, 1)), Rat(100, 1)))
    ELSE IF v > 0 THEN Infinite
    ELSE IF v < 0 THEN NegInfinite
    ELSE Missing

weight_column(df) ==
    LET cv == filled_current_value(df)
    IN  [i \in DOMAIN df |-> weight_pct(cv[i], SumInts(cv))]

NoHeatMap == [weights |-> <<>>, computed |-> FALSE, fig |-> FALSE]

HeatMap(w) == [weights |-> w, computed |-> TRUE, fig |-> TRUE]

\* The weight heat map of fox_valley_dashboard.py: only for total_cv > 0.
dashboard_weight_heatmap(df) ==
    IF df = <<>> \/ "Current Value" \notin Columns(df) THEN NoHeatMap
    ELSE IF SumInts(filled_current_value(df)) > 0 THEN HeatMap(weight_column(df))
    ELSE NoHeatMap

\* generate_weight_heatmap(portfolio_df) of the diagnostics module.
generate_weight_heatmap(df) ==
    IF df = <<>> \/ "Current Value" \notin Columns(df) THEN NoHeatMap
    ELSE HeatMap(weight_column(df))

WeightInit ==
    /\ wdf = <<>>
    /\ heat = [op |-> "none"]

\* The loader returns one more holding.
AddWeightRow ==
    /\ Len(wdf) < MaxWeightRows
    /\ \E r \in WeightRows :
        /\ wdf # <<>> => DOMAIN r = DOMAIN wdf[1]
        /\ wdf' = Append(wdf, r)
    /\ heat' = [op |-> "none"]
    /\ UNCHANGED notWeight

DashboardWeightHeatMap ==
    /\ heat' = [op |-> "dashboard", out |-> dashboard_weight_heatmap(wdf)]
    /\ UNCHANGED <<wdf, notWeight>>

GenerateWeightHeatmap ==
    /\ heat' = [op |-> "diagnostics", out |-> generate_weight_heatmap(wdf)]
    /\ UNCHANGED <<wdf, notWeight>>

\* The next portfolio.
NextPortfolio ==
    /\ heat.op # "none"
    /\ wdf' = <<>>
    /\ heat' = [op |-> "none"]
    /\ UNCHANGED notWeight

WeightNext ==
    \/ AddWeightRow
    \/ DashboardWeightHeatMap
    \/ GenerateWeightHeatmap
    \/ NextPortfolio

(***************************************************************************)
(* Weight claims.                                                          *)
(***************************************************************************)
\* The sum of Current Value of the table, blanks as 0.
TotalCurrentValue ==
    IF "Current Value" \in Columns(wdf) THEN SumInts(filled_current_value(wdf)) ELSE 0

RECURSIVE SumWeights(_)
SumWeights(w) ==
    IF w = <<>> THEN Zero ELSE RatAdd(SumWeights(Front(w)), Last(w).val)

\* Weights are produced only for a positive total, and then sum to 100; for a total of 0
\* there is no weight and no heat map.
WeightsGuarded(op) ==
    heat.op = op =>
        /\ heat.out.computed =>
            /\ TotalCurrentValue > 0
            /\ \A i \in DOMAIN heat.out.weights : heat.out.weights[i].kind = "num"
            /\ SumWeights(heat.out.weights) = Rat(100, 1)
        /\ TotalCurrentValue = 0 => ~heat.out.computed /\ ~heat.out.fig

\* C30: in the monolithic dashboard and in the diagnostics module alike, Weight % values
\* are produced only when the sum of Current Value is > 0 (and then sum to 100); when
\* the sum is 0 no weight is computed and no heat map is produced.
C30_WeightsGuardedInBoth ==
    /\ WeightsGuarded("dashboard")
    /\ WeightsGuarded("diagnostics")

\* The dashboard's half on its own.
DashboardWeightsGuarded == WeightsGuarded("dashboard")

(***************************************************************************)
(* Specifications.                                                         *)
(***************************************************************************)
Init ==
    /\ SelInit
    /\ MatchInit
    /\ IntelInit
    /\ ClassInit
    /\ DeltaInit
    /\ NormInit
    /\ RenderInit
    /\ CacheInit
    /\ SnapInit
    /\ FrameInit
    /\ SummaryInit
    /\ MetricsInit
    /\ ScoreInit
    /\ TacticalInit
    /\ GainInit
    /\ WeightInit

SelSpec == Init /\ [][SelNext]_vars

MatchSpec == Init /\ [][MatchNext]_vars

IntelSpec == Init /\ [][IntelNext]_vars

ClassSpec == Init /\ [][ClassNext]_vars

DeltaSpec == Init /\ [][DeltaNext]_vars

NormSpec == Init /\ [][NormNext]_vars

RenderSpec == Init /\ [][RenderNext]_vars

CacheSpec == Init /\ [][CacheNext]_vars

SnapSpec == Init /\ [][SnapNext]_vars

FrameSpec == Init /\ [][FrameNext]_vars

\* Time passes whatever the application does; a run of the script happens only when a
\* session asks for one, so nothing makes it happen.
SummarySpec == Init /\ [][SummaryNext]_vars /\ WF_vars(Tick)

MetricsSpec == Init /\ [][MetricsNext]_vars

ScoreSpec == Init /\ [][ScoreNext]_vars

TacticalSpec == Init /\ [][TacticalNext]_vars

GainSpec == Init /\ [][GainNext]_vars

WeightSpec == Init /\ [][WeightNext]_vars

Next ==
    \/ SelNext
    \/ MatchNext
    \/ IntelNext
    \/ ClassNext
    \/ DeltaNext
    \/ NormNext
    \/ RenderNext
    \/ CacheNext
    \/ SnapNext
    \/ FrameNext
    \/ SummaryNext
    \/ MetricsNext
    \/ ScoreNext
    \/ TacticalNext
    \/ GainNext
    \/ WeightNext

Spec == Init /\ [][Next]_vars

====
